---- MODULE Spec2Model ----
(***************************************************************************)
(* Article Candidate Pipeline of universal-article-scraper.                *)
(*                                                                         *)
(* Python strings are TLA+ strings (TLC evaluates Len, \o and SubSeq on    *)
(* them), so every text operation below works character by character, as   *)
(* the Python code does.  Python's None is the sentinel string None.       *)
(***************************************************************************)
EXTENDS Integers, Sequences, FiniteSets, TLC

VARIABLES
    \* ---- persistence (scraper/save.py, scraper/s3_upload.py) ----
    local_files,              \* output directory: file name -> id of the record stored in it
    local_csv,                \* rows of <out_dir>/all_articles.csv, in file order
    s3_objects,               \* remote bucket under the run's prefix: key -> stored body
    s3_csv_content,           \* save._s3_csv_content
    s3_csv_headers_written,   \* save._s3_csv_headers_written
    env,                      \* process environment and import state read by the sinks
    write_log,                \* every write_json_per_article call so far, in call order
    \* ---- classification of one record (filter_articles.py) ----
    record,                   \* the record handed to is_actual_article
    verdict,                  \* what the call did: Pending, a returned pair or a raised exception
    \* ---- link filtering of one homepage (scraper/link_filters.py) ----
    homepage,                 \* the homepage the links were taken from
    hrefs,                    \* the raw href values, in document order
    link_phase,               \* "collect", then "suggested", then "fed_back"
    article_links,            \* the list suggest_article_links returned for hrefs
    fed_back,                 \* the list it returned when given article_links as the raw links
    \* ---- one run of HomepageSpider (scraper/spiders/homepage_spider.py) ----
    spider_phase,             \* "start", "crawling" (parse has run), "closed", then
                              \* "finished" (run_scraper has returned)
    pending,                  \* URLs requested by parse whose callback or errback has not run
    articles_found,           \* self.articles_found
    articles_processed,       \* self.articles_processed
    articles_saved,           \* self.articles_saved
    scraped_articles,         \* self.scraped_articles
    filtered_articles,        \* self.filtered_articles
    verdict_log,              \* every is_actual_article call of filter_articles, in call order
    closed_raised,            \* the exception closed() let escape, or None
    report_log,               \* every create_summary_report call of the run, in call order
    \* ---- one call of summarize (scraper/summarizer.py) ----
    summarize_args,           \* [text, enabled, model]: the content, SUMMARY_ENABLED != 'false',
                              \* and what the abstractive model does when it is asked
    summarize_outcome,        \* NotCalled, or what the call returned and how far it used the model
    \* ---- one call of extract_article (scraper/extractors.py) ----
    extract_args,             \* the response, and what trafilatura and the DOM selectors
                              \* make of its text
    extract_outcome,          \* NotCalled, or what the call returned or raised and the stages it ran
    \* ---- one call of sanitize_filename (scraper/save.py) ----
    sanitize_args,            \* [title, max_length]
    sanitize_outcome,         \* NotCalled, or the returned file name
    \* ---- one call of _fallback_summary (scraper/summarizer.py) ----
    fallback_args,            \* [text, max_chars]
    fallback_outcome,         \* NotCalled, or the returned summary
    \* ---- several runs of save_filtered_articles in one process ----
    flush_log,                \* per run: the records it saved, whether all_articles.csv
                              \* was put, and the rows of the object that was put
    \* ---- workers inside _upload_csv_to_s3 at the same time ----
    worker_pc                 \* per worker: the statement of _upload_csv_to_s3 it is at

save_vars == <<local_files, local_csv, s3_objects, s3_csv_content,
               s3_csv_headers_written, env, write_log>>

classify_vars == <<record, verdict>>

link_vars == <<homepage, hrefs, link_phase, article_links, fed_back>>

spider_vars == <<spider_phase, pending, articles_found, articles_processed, articles_saved,
                 scraped_articles, filtered_articles, verdict_log, closed_raised,
                 report_log>>

summarize_vars == <<summarize_args, summarize_outcome>>

\* the variables of the functions that are called on one input in isolation
extract_vars == <<extract_args, extract_outcome>>

sanitize_vars == <<sanitize_args, sanitize_outcome>>

fallback_vars == <<fallback_args, fallback_outcome>>

flush_vars == <<flush_log>>

worker_vars == <<worker_pc>>

pure_vars == <<summarize_vars, extract_vars, sanitize_vars, fallback_vars, flush_vars,
               worker_vars>>

vars == <<save_vars, classify_vars, link_vars, spider_vars, pure_vars>>

-----------------------------------------------------------------------------
(* Python str primitives *)

None == "<None>"

Char(s, i) == SubSeq(s, i, i)

Min(S) == CHOOSE m \in S : \A n \in S : m <= n
Max(S) == CHOOSE m \in S : \A n \in S : m >= n

\* ''.join(pieces[lo..hi]); halving keeps the recursion depth logarithmic
RECURSIVE Join(_, _, _)
Join(pieces, lo, hi) ==
    IF lo > hi THEN ""
    ELSE IF lo = hi THEN pieces[lo]
    ELSE LET mid == (lo + hi) \div 2
         IN  Join(pieces, lo, mid) \o Join(pieces, mid + 1, hi)

\* s * n
RECURSIVE Repeat(_, _)
Repeat(s, n) ==
    IF n <= 0 THEN ""
    ELSE IF n % 2 = 0 THEN LET h == Repeat(s, n \div 2) IN h \o h
    ELSE s \o Repeat(s, n - 1)

UpperChars == "ABCDEFGHIJKLMNOPQRSTUVWXYZ"
LowerChars == "abcdefghijklmnopqrstuvwxyz"
DigitChars == "0123456789"

CharsOf(alphabet) == {Char(alphabet, i) : i \in 1..Len(alphabet)}
UpperSet == CharsOf(UpperChars)
LowerSet == CharsOf(LowerChars)
DigitSet == CharsOf(DigitChars)
LowerOf == [c \in UpperSet |->
              Char(LowerChars, CHOOSE i \in 1..Len(UpperChars) : Char(UpperChars, i) = c)]

IsDigit(c) == c \in DigitSet
\* regex \w on the ASCII characters the model uses
IsWordChar(c) == c \in UpperSet \/ c \in LowerSet \/ c \in DigitSet \/ c = "_"
\* regex \s and str.isspace
IsSpace(c) == c \in {" ", "\n", "\t"}

LowerChar(c) == IF c \in UpperSet THEN LowerOf[c] ELSE c

\* str.lower()
Lower(s) == Join([i \in 1..Len(s) |-> LowerChar(Char(s, i))], 1, Len(s))

\* positions where sub occurs in s
Matches(s, sub) ==
    {i \in 1..(Len(s) - Len(sub) + 1) : SubSeq(s, i, i + Len(sub) - 1) = sub}

\* sub in s
Contains(s, sub) == sub = "" \/ Matches(s, sub) # {}

\* str.count(sub): occurrences counted left to right without overlap
RECURSIVE Greedy(_, _, _)
Greedy(M, k, from) ==
    LET R == {i \in M : i >= from}
    IN  IF R = {} THEN {} ELSE {Min(R)} \cup Greedy(M, k, Min(R) + k)
Occurrences(s, sub) == Greedy(Matches(s, sub), Len(sub), 1)
Count(s, sub) == Cardinality(Occurrences(s, sub))

\* str.replace(sub, '')
RemoveAll(s, sub) ==
    LET G == Occurrences(s, sub)
    IN  Join([i \in 1..Len(s) |->
                IF \E m \in G : m <= i /\ i < m + Len(sub) THEN "" ELSE Char(s, i)],
             1, Len(s))

StartsWith(s, p) == Len(s) >= Len(p) /\ SubSeq(s, 1, Len(p)) = p
EndsWith(s, p) == Len(s) >= Len(p) /\ SubSeq(s, Len(s) - Len(p) + 1, Len(s)) = p

\* s[:n]
Prefix(s, n) == SubSeq(s, 1, IF n < Len(s) THEN n ELSE Len(s))

\* str.strip(chars) / str.rstrip(chars) for a set of characters
StripSet(s, cs) ==
    LET keep == {i \in 1..Len(s) : Char(s, i) \notin cs}
    IN  IF keep = {} THEN "" ELSE SubSeq(s, Min(keep), Max(keep))
RStripSet(s, cs) ==
    LET keep == {i \in 1..Len(s) : Char(s, i) \notin cs}
    IN  IF keep = {} THEN "" ELSE SubSeq(s, 1, Max(keep))
\* str.strip()
Strip(s) == StripSet(s, {" ", "\n", "\t"})

\* str.split(sep)[0] and the number of pieces of str.split(sep) for a one-character sep
SplitFirst(s, sep) ==
    LET M == Matches(s, sep) IN IF M = {} THEN s ELSE SubSeq(s, 1, Min(M) - 1)
SplitLen(s, sep) == Count(s, sep) + 1

\* the k-th smallest element of a set of numbers
Kth(S, k) == CHOOSE p \in S : Cardinality({q \in S : q <= p}) = k

\* str.split(c) for a one-character separator: the pieces between the separators
Split(s, c) ==
    LET D == Matches(s, c)
        n == Cardinality(D)
        lo(k) == IF k = 1 THEN 1 ELSE Kth(D, k - 1) + 1
        hi(k) == IF k = n + 1 THEN Len(s) ELSE Kth(D, k) - 1
    IN  [k \in 1..(n + 1) |-> SubSeq(s, lo(k), hi(k))]

\* the elements of a list
Range(seq) == {seq[i] : i \in DOMAIN seq}

\* s[n:] for n counted from 0
From(s, n) == SubSeq(s, n + 1, Len(s))

\* sep.join(parts[lo..hi])
RECURSIVE JoinWith(_, _, _, _)
JoinWith(parts, sep, lo, hi) ==
    IF lo > hi THEN ""
    ELSE IF lo = hi THEN parts[lo]
    ELSE LET mid == (lo + hi) \div 2
         IN  JoinWith(parts, sep, lo, mid) \o sep \o JoinWith(parts, sep, mid + 1, hi)

\* the subsequence of the elements with the given indices, in order
Select(seq, V) == [j \in 1..Cardinality(V) |-> seq[Kth(V, j)]]

\* len(s.split()): the number of whitespace-delimited words
WordCount(s) ==
    Cardinality({i \in 1..Len(s) :
        /\ ~IsSpace(Char(s, i))
        /\ (i = 1 \/ IsSpace(Char(s, i - 1)))})

-----------------------------------------------------------------------------
\* The URLs of the pages the model fetches
ArticleUrls ==
    <<"https://example.com/news/first", "https://example.com/news/second",
      "https://example.com/blog/third-post">>

-----------------------------------------------------------------------------
(* filter_articles.py: is_actual_article *)

\* The outcome of a Python call: a returned (accepted, reason) pair or a raised exception
Returned(accepted, reason) == [raised |-> "", accepted |-> accepted, reason |-> reason]
Raised(exc) == [raised |-> exc, accepted |-> FALSE, reason |-> ""]

\* sum(1 for b in flags if b) for a tuple of booleans
CountTrue(flags) == Cardinality({i \in DOMAIN flags : flags[i]})

\* lines 39-72: title is already lower-cased
definitive_non_articles(title, content) ==
    <<  Contains(title, "policy") /\ (Contains(title, "privacy") \/ Contains(title, "cookie")),
        Contains(title, "terms of service") \/ Contains(title, "terms and conditions"),
        Contains(title, "live score") \/ Contains(title, "live cricket score"),
        Contains(title, "live updates"),
        Contains(title, "live blog"),
        Contains(title, "calculator"),
        Contains(title, "checker"),
        Contains(title, "interactive map"),
        Contains(title, "charging stations map"),
        Contains(title, "latest news on"),
        Contains(title, "latest movies") /\ Contains(title, "list of"),
        Contains(title, "top 20") /\ (Contains(title, "movies") \/ Contains(title, "films")),
        EndsWith(title, " news") /\ Len(content) > 2000 /\ Count(content, " - ") > 10,
        Contains(title, "lease deals") /\ Len(content) < 500,
        "buying a car" = Strip(title),
        "selling a car" = Strip(title),
        "selling a van" = Strip(title),
        Count(content, "Other topics in this category") > 0,
        Len(content) < 150
    >>

\* lines 79-117 without the first entry, which is the value of
\* `author_normalized and author_normalized.lower() not in ['null', 'none', '']`
strong_article_indicators(title, content, author_normalized) ==
    <<  Contains(Lower(author_normalized), "desk"),
        Contains(Lower(author_normalized), "global"),
        WordCount(author_normalized) >= 2,
        Len(content) > 1000 /\ Count(content, ".") > 25,
        Len(content) > 2000,
        Contains(title, ": ") /\ SplitLen(title, ":") = 2,
        Count(title, "|") = 1 /\ Contains(title, "news"),
        Contains(title, "how to") \/ Contains(Prefix(title, 10), "how"),
        Contains(Prefix(title, 20), "why"),
        Contains(Prefix(title, 20), "what") /\ Contains(title, "?"),
        Contains(title, "should i"),
        Contains(title, "vs") /\ Len(content) > 800,
        Contains(title, "tips") /\ Len(content) > 800,
        Contains(title, "guide") /\ Len(content) > 800,
        Contains(title, "everything you need to know"),
        Contains(title, "for sale") /\ Len(content) > 800,
        Contains(title, "deals") /\ Len(content) > 600,
        Contains(title, "review") /\ Len(content) > 500,
        Contains(title, "compare") /\ Len(content) > 600,
        Contains(title, "lease") /\ Len(content) > 600,
        Contains(title, "used cars") /\ Len(content) > 500,
        Contains(title, "news") /\ Len(content) > 400,
        Contains(title, "clean air zone") /\ Len(content) > 300,
        Count(content, "paragraph") = 0 /\ Count(content, "section") < 3,
        Count(content, "http") < 5
    >>

\* lines 120-125
weak_article_indicators(title, content, url) ==
    <<  Len(content) > 500,
        Count(content, ".") > 10,
        ~(\E x \in {"list", "top 10", "top 20", "deals"} : Contains(title, x)),
        Contains(url, "news") /\ Len(content) > 800
    >>

\* lines 128-144
analyze_content_structure(content) ==
    IF Len(content) < 200 THEN [ok |-> FALSE, reason |-> "Too short"]
    ELSE IF SplitLen(content, ".") < 5 THEN [ok |-> FALSE, reason |-> "Too few sentences"]
    ELSE LET low == Lower(content)
             navigation_words == Count(low, "browse") + Count(low, "select")
                                 + Count(low, "filter")
             article_words == Count(low, "however") + Count(low, "therefore")
                              + Count(low, "although")
         IN  IF navigation_words > article_words * 6
             THEN [ok |-> FALSE, reason |-> "Too much navigation language"]
             ELSE [ok |-> TRUE, reason |-> "Good content structure"]

\* decision without its first rule (strong_score >= 3 accepts on its own)
decision_without_strong_rule(strong_score, weak_score, content_analysis, author_normalized, content) ==
    LET total_score == strong_score * 2 + weak_score
    IN  IF strong_score >= 2 /\ content_analysis.ok
        THEN Returned(TRUE, "Likely article (score: " \o ToString(strong_score)
                            \o "): Strong indicators + good content")
        ELSE IF strong_score >= 1 /\ weak_score >= 3 /\ content_analysis.ok
        THEN Returned(TRUE, "Probable article (total score: " \o ToString(total_score)
                            \o "): Combined indicators")
        ELSE IF author_normalized # "" /\ Len(content) > 1000 /\ content_analysis.ok
        THEN Returned(TRUE, "Article with author: " \o Prefix(author_normalized, 30)
                            \o "... and substantial content")
        ELSE IF ~content_analysis.ok
        THEN Returned(FALSE, "Non-article: " \o content_analysis.reason)
        ELSE Returned(FALSE, "Non-article: Insufficient article indicators")

\* decision with its second rule not consulting the content analysis
decision_with_ungated_rule(strong_score, weak_score, content_analysis, author_normalized, content) ==
    IF strong_score >= 2
    THEN Returned(TRUE, "Likely article (score: " \o ToString(strong_score)
                        \o "): Strong indicators + good content")
    ELSE decision_without_strong_rule(strong_score, weak_score, content_analysis,
                                      author_normalized, content)

\* lines 153-167
decision(strong_score, weak_score, content_analysis, author_normalized, content) ==
    LET total_score == strong_score * 2 + weak_score
    IN  IF strong_score >= 3
        THEN Returned(TRUE, "Strong article (score: " \o ToString(strong_score)
                            \o "): Multiple strong indicators")
        ELSE IF strong_score >= 2 /\ content_analysis.ok
        THEN Returned(TRUE, "Likely article (score: " \o ToString(strong_score)
                            \o "): Strong indicators + good content")
        ELSE IF strong_score >= 1 /\ weak_score >= 3 /\ content_analysis.ok
        THEN Returned(TRUE, "Probable article (total score: " \o ToString(total_score)
                            \o "): Combined indicators")
        ELSE IF author_normalized # "" /\ Len(content) > 1000 /\ content_analysis.ok
        THEN Returned(TRUE, "Article with author: " \o Prefix(author_normalized, 30)
                            \o "... and substantial content")
        ELSE IF ~content_analysis.ok
        THEN Returned(FALSE, "Non-article: " \o content_analysis.reason)
        ELSE IF total_score < 2
        THEN Returned(FALSE, "Non-article: Low article score (" \o ToString(total_score)
                             \o ")")
        ELSE Returned(FALSE, "Non-article: Insufficient article indicators")

\* is_actual_article(data), lines 28-167.  data.get(k, '') returns None for a key
\* that is present with the value None, as in the records extract_article builds.
is_actual_article(data) ==
    IF data.title = None THEN Raised("AttributeError")          \* line 30: None.lower()
    ELSE IF data.url = None THEN Raised("AttributeError")       \* line 32
    ELSE IF data.content = None THEN Raised("AttributeError")   \* line 59/70: None.count
    ELSE
    LET title == Lower(data.title)
        content == data.content
        url == Lower(data.url)
        author == data.author
        author_normalized == IF author # None /\ author # "" THEN Strip(author) ELSE ""
    IN  IF \E i \in DOMAIN definitive_non_articles(title, content) :
              definitive_non_articles(title, content)[i]
        THEN Returned(FALSE, "Definitive non-article: Policy, tool, category, or commercial page")
        ELSE IF author_normalized = ""
        \* the first strong indicator is the str '' and sum() raises at line 149
        THEN Raised("TypeError")
        ELSE
        LET first == Lower(author_normalized) \notin {"null", "none", ""}
            strong_score == (IF first THEN 1 ELSE 0)
                + CountTrue(strong_article_indicators(title, content, author_normalized))
            weak_score == CountTrue(weak_article_indicators(title, content, url))
        IN  decision(strong_score, weak_score, analyze_content_structure(content),
                     author_normalized, content)

-----------------------------------------------------------------------------
(* Classifying one record *)

Sentence == "The council voted on the measure today. "
Filler == "lorem ipsum dolor sit amet "

\* Extracted bodies: the empty and the policy-page body of the spec's examples, bodies
\* around the 150 and 200 character thresholds, and long bodies with and without
\* sentences, template residue, dash-separated listings, links and navigation words
Contents ==
    { "",
      "Privacy Policy. Cookie Policy.",
      Prefix(Repeat(Sentence, 4), 149),
      Prefix(Repeat(Sentence, 4), 150),
      Repeat(Sentence, 5),
      Repeat(Sentence, 26),
      Prefix(Repeat(Filler, 100), 2500),
      Prefix(Repeat(Sentence, 70), 2500),
      Prefix("Other topics in this category " \o Repeat(Sentence, 70), 2500),
      Prefix(Repeat("Markets - ", 11) \o Repeat(Filler, 100), 2500),
      Prefix(Repeat("see http://example.com/paragraph ", 5) \o Repeat(Filler, 100), 2500),
      Repeat("Browse the menu. Select a filter. ", 8) }

Titles ==
    { None, "", "Privacy Policy", "X: Y", "Council Approves Budget",
      "Mortgage Calculator: Monthly Payments", "Markets: Today's News",
      "How to Bake Bread", "Weekend Deals List" }

Authors == { None, "", "Jane Doe", "Staff", "null" }

Urls == { ArticleUrls[1], ArticleUrls[3] }

ClassifyRecords ==
    [title : Titles, author : Authors, content : Contents, url : Urls]

Pending == [raised |-> "pending", accepted |-> FALSE, reason |-> ""]

IdleClassify ==
    /\ record = [title |-> None, author |-> None, content |-> None, url |-> None]
    /\ verdict = Pending

InitClassify ==
    /\ record \in ClassifyRecords
    /\ verdict = Pending

\* one call is_actual_article(record)
Classify ==
    /\ verdict = Pending
    /\ verdict' = is_actual_article(record)
    /\ UNCHANGED <<record, save_vars, link_vars, spider_vars, pure_vars>>

-----------------------------------------------------------------------------
(* scraper/summarizer.py *)

\* _fallback_summary, lines 124-128: the stripped pieces longer than 10 characters,
\* each with its period restored
FallbackSentences(text) ==
    LET pieces == Split(text, ".")
        V == {k \in DOMAIN pieces : Len(Strip(pieces[k])) > 10}
    IN  [j \in 1..Cardinality(V) |-> Strip(pieces[Kth(V, j)]) \o "."]

\* _fallback_summary, lines 135-143: how many of the first five sentences are taken
\* before one no longer fits
RECURSIVE TakeFitting(_, _, _, _)
TakeFitting(sentences, j, current_length, max_chars) ==
    IF j > Len(sentences) \/ j > 5 THEN j - 1
    ELSE IF current_length + Len(sentences[j]) <= max_chars
    THEN TakeFitting(sentences, j + 1, current_length + Len(sentences[j]), max_chars)
    ELSE j - 1

Ellipsis(s, max_chars) == Prefix(s, max_chars) \o (IF Len(s) > max_chars THEN "..." ELSE "")

_fallback_summary(text, max_chars) ==
    IF text = None \/ text = "" THEN "N/A"
    ELSE LET sentences == FallbackSentences(text)
         IN  IF Len(sentences) = 0 THEN Ellipsis(text, max_chars)
             ELSE LET n == TakeFitting(sentences, 1, 0, max_chars)
                  IN  IF n = 0 THEN Ellipsis(sentences[1], max_chars)
                      ELSE JoinWith(sentences, " ", 1, n)

SummaryMaxLength == 160
MaxInputChars == 4000

\* What the abstractive model does when asked: it cannot be loaded, it raises, it
\* returns an empty or blank summary, or it returns a summary text
ModelOutcomes ==
    { [kind |-> "unavailable", text |-> ""], [kind |-> "raises", text |-> ""],
      [kind |-> "ok", text |-> ""], [kind |-> "ok", text |-> "  "],
      [kind |-> "ok", text |-> " The council voted on the measure. "] }

\* summarize without the length threshold of line 60
summarize_without_threshold(text, enabled, model) ==
    IF text = None \/ text = "" THEN "N/A"
    ELSE IF ~enabled THEN _fallback_summary(text, SummaryMaxLength)
    ELSE IF model.kind = "unavailable" THEN _fallback_summary(text, SummaryMaxLength)
    ELSE IF model.kind = "raises"
    THEN _fallback_summary(Prefix(text, MaxInputChars), SummaryMaxLength)
    ELSE IF Strip(model.text) # "" THEN Strip(model.text)
    ELSE _fallback_summary(Prefix(text, MaxInputChars), SummaryMaxLength)

\* summarize that hands on whatever the model gave, an empty summary included
summarize_without_empty_test(text, enabled, model) ==
    IF text = None \/ text = "" \/ Len(Strip(text)) < 100
    THEN (IF text = None \/ text = "" THEN "N/A" ELSE text)
    ELSE IF ~enabled THEN _fallback_summary(text, SummaryMaxLength)
    ELSE IF model.kind = "unavailable" THEN _fallback_summary(text, SummaryMaxLength)
    ELSE IF model.kind = "raises"
    THEN _fallback_summary(Prefix(text, MaxInputChars), SummaryMaxLength)
    ELSE Strip(model.text)

\* summarize(text) with the default lengths; enabled is SUMMARY_ENABLED != 'false'
summarize(text, enabled, model) ==
    IF text = None \/ text = "" \/ Len(Strip(text)) < 100
    THEN (IF text = None \/ text = "" THEN "N/A" ELSE text)
    ELSE IF ~enabled THEN _fallback_summary(text, SummaryMaxLength)
    ELSE IF model.kind = "unavailable" THEN _fallback_summary(text, SummaryMaxLength)
    ELSE LET input == Prefix(text, MaxInputChars)
         IN  IF model.kind = "raises" THEN _fallback_summary(input, SummaryMaxLength)
             ELSE IF Strip(model.text) # "" THEN Strip(model.text)
             ELSE _fallback_summary(input, SummaryMaxLength)

\* how far summarize goes in using the abstractive model: "none", "get_summarizer"
\* (the model was asked for and could not be had) or "summarizer" (the model was run)
model_use(text, enabled, model) ==
    IF text = None \/ text = "" \/ Len(Strip(text)) < 100 THEN "none"
    ELSE IF ~enabled THEN "none"
    ELSE IF model.kind = "unavailable" THEN "get_summarizer"
    ELSE "summarizer"

-----------------------------------------------------------------------------
(* One call of summarize *)

\* Contents: absent, empty, blank, one character under the threshold, the same padded
\* with blanks past it, at the threshold, with and without sentences, and longer than
\* the input budget of the model
SummarizeTexts ==
    { None, "", "   ", Prefix(Repeat(Sentence, 3), 99),
      Prefix(Repeat(Sentence, 3), 99) \o Repeat(" ", 20),
      Prefix(Repeat(Sentence, 3), 100), Repeat(Sentence, 26), Repeat(Filler, 8),
      Repeat("a.b. ", 30), Repeat(Sentence, 101) }

NotCalled == [called |-> FALSE]

IdleSummarize ==
    /\ summarize_args = [text |-> None, enabled |-> TRUE,
                         model |-> [kind |-> "unavailable", text |-> ""]]
    /\ summarize_outcome = NotCalled

InitSummarize ==
    /\ summarize_args \in [text : SummarizeTexts, enabled : BOOLEAN, model : ModelOutcomes]
    /\ summarize_outcome = NotCalled

\* one call summarize(text)
Summarize ==
    /\ summarize_outcome = NotCalled
    /\ summarize_outcome' =
          [called |-> TRUE,
           returned |-> summarize(summarize_args.text, summarize_args.enabled,
                                  summarize_args.model),
           model_use |-> model_use(summarize_args.text, summarize_args.enabled,
                                   summarize_args.model)]
    /\ UNCHANGED <<summarize_args, save_vars, classify_vars, link_vars, spider_vars>>
    /\ UNCHANGED <<extract_vars, sanitize_vars, fallback_vars, flush_vars, worker_vars>>

-----------------------------------------------------------------------------
(* One call of _fallback_summary *)

\* Texts: absent, empty, a few words without a period, 200 characters without a
\* period, fragments of at most 10 characters only, one sentence, a first sentence of
\* 200 characters, sentences of 40 characters, and short sentences after a long one
FallbackTexts ==
    { None, "", "Hello world", Prefix(Repeat(Filler, 8), 200), Repeat("a.b. ", 30),
      "The council voted on the measure today.",
      Prefix(Repeat(Filler, 8), 199) \o ". And then a second sentence.",
      Repeat(Sentence, 26),
      "  The council voted.   It was a long night. The end. The mayor signed it. ",
      "No period at the end but long enough" }

FallbackBudgets == { 1, 2, 3, 10, 39, 40, 78, 80, 81, SummaryMaxLength, 200 }

IdleFallback ==
    /\ fallback_args = [text |-> None, max_chars |-> SummaryMaxLength]
    /\ fallback_outcome = NotCalled

InitFallback ==
    /\ fallback_args \in [text : FallbackTexts, max_chars : FallbackBudgets]
    /\ fallback_outcome = NotCalled

\* one call _fallback_summary(text, max_chars)
Fallback ==
    /\ fallback_outcome = NotCalled
    /\ fallback_outcome' =
          [called |-> TRUE,
           returned |-> _fallback_summary(fallback_args.text, fallback_args.max_chars)]
    /\ UNCHANGED <<fallback_args, save_vars, classify_vars, link_vars, spider_vars>>
    /\ UNCHANGED <<summarize_vars, extract_vars, sanitize_vars, flush_vars, worker_vars>>

-----------------------------------------------------------------------------
(* scraper/extractors.py *)

\* _clean_text, character by character: a run of whitespace becomes one blank, a run
\* of three or more dots "...", a run of two or more hyphens "--"
CleanPiece(s, i) ==
    IF IsSpace(Char(s, i)) THEN (IF i > 1 /\ IsSpace(Char(s, i - 1)) THEN "" ELSE " ")
    ELSE IF Char(s, i) = "." /\ i > 3 /\ SubSeq(s, i - 3, i - 1) = "..." THEN ""
    ELSE IF Char(s, i) = "-" /\ i > 2 /\ SubSeq(s, i - 2, i - 1) = "--" THEN ""
    ELSE Char(s, i)

_clean_text(text) ==
    IF text = None \/ text = "" THEN ""
    ELSE Strip(Join([i \in 1..Len(text) |-> CleanPiece(text, i)], 1, Len(text)))

\* _extract_title_from_content: the first line, or its first sentence when the line
\* has more than 100 characters, if that has between 11 and 199 characters
_extract_title_from_content(content) ==
    LET Sized(first_line) ==
            IF Len(first_line) > 10 /\ Len(first_line) < 200 THEN first_line ELSE None
        Shortened(first_line) ==
            Sized(IF Len(first_line) > 100
                  THEN (IF Matches(first_line, ". ") = {} THEN first_line
                        ELSE SubSeq(first_line, 1, Min(Matches(first_line, ". ")) - 1))
                  ELSE first_line)
    IN  IF content = None \/ content = "" THEN None
        ELSE Shortened(Strip(SplitFirst(content, "\n")))

\* What extract_article returns: None, or a record
NoArticle == [extracted |-> FALSE]
Extracted(title, author, content) ==
    [title |-> title, author |-> author, content |-> content]

\* What a stage hands back to extract_article: an exception, None, or a record
StageRaised == [kind |-> "raised", data |-> NoArticle]
StageNone == [kind |-> "none", data |-> NoArticle]
StageData(title, author, content) ==
    [kind |-> "data", data |-> Extracted(title, author, content)]

\* _extract_with_trafilatura: lib is what trafilatura.extract and extract_metadata do
\* with the page -- raise, or give a content (or None) and a title and an author (or
\* None).  Content under 100 characters after stripping gives None.
_extract_with_trafilatura(lib) ==
    LET Titled(title) ==
            StageData(IF title = "" THEN _extract_title_from_content(lib.content)
                      ELSE title,
                      IF lib.author = None \/ lib.author = "" THEN None
                      ELSE _clean_text(lib.author),
                      _clean_text(lib.content))
    IN  IF lib.kind = "raises" THEN StageRaised
        ELSE IF lib.content = None \/ lib.content = "" THEN StageNone
        ELSE IF Len(Strip(lib.content)) < 100 THEN StageNone
        ELSE Titled(_clean_text(lib.title))

\* _extract_content_bs: soup.content is the text of the paragraphs joined by blank
\* lines, found under a content selector (soup.via = "selector", kept when longer than
\* 100 characters) or in the whole body (soup.via = "body", kept when longer than
\* 200); what is kept is returned cleaned
_extract_content_bs(soup) ==
    IF soup.content = None \/ soup.content = "" THEN None
    ELSE IF Len(soup.content) > (IF soup.via = "selector" THEN 100 ELSE 200)
    THEN _clean_text(soup.content)
    ELSE None

\* _extract_with_beautifulsoup: soup is what the selector heuristics find in the
\* parsed page (_extract_title_bs, _extract_author_bs, _extract_content_bs), or the
\* exception of the parser
_extract_with_beautifulsoup(soup) ==
    LET Checked(content) ==
            IF content = None \/ content = "" THEN StageNone
            ELSE IF Len(Strip(content)) < 100 THEN StageNone
            ELSE StageData(soup.title, soup.author, content)
    IN  IF soup.kind = "raises" THEN StageRaised
        ELSE Checked(_extract_content_bs(soup))

\* `article_data and article_data.get('content')`
HasContent(stage) ==
    /\ stage.kind = "data"
    /\ stage.data.content # None
    /\ stage.data.content # ""

ExtractResult(returned, raised, stages) ==
    [called |-> TRUE, returned |-> returned, raised |-> raised, stages |-> stages]

\* extract_article.  response is [body, content_type, text, trafilatura, soup]:
\* content_type is the header value or None without the header, text says whether
\* response.text gives the page or raises (the text property of a scrapy Response
\* that is not a TextResponse raises AttributeError), trafilatura and soup are what
\* the two libraries do with the text.  The result names the stages that ran.
extract_article(response) ==
    LET Second(stage) ==
            ExtractResult(IF HasContent(stage) THEN stage.data ELSE NoArticle, "",
                          <<"trafilatura", "beautifulsoup">>)
        First(stage) ==
            IF HasContent(stage) THEN ExtractResult(stage.data, "", <<"trafilatura">>)
            ELSE Second(_extract_with_beautifulsoup(response.soup))
    IN  IF response.body = "" THEN ExtractResult(NoArticle, "", <<>>)
        ELSE IF ~Contains(Lower(IF response.content_type = None THEN ""
                                 ELSE response.content_type), "html")
        THEN ExtractResult(NoArticle, "", <<>>)
        ELSE IF response.text = "not_text"
        THEN ExtractResult(NoArticle, "AttributeError", <<>>)
        ELSE First(_extract_with_trafilatura(response.trafilatura))

-----------------------------------------------------------------------------
(* One call of extract_article *)

\* Extracted texts: none, empty, short, 99 characters padded with blanks past 100,
\* two long ones, the second with runs of blanks, dots and hyphens, and one of 120
\* characters of which 59 are left when the runs of whitespace are collapsed
ExtractContents ==
    { None, "", "Too short to be an article.",
      Prefix(Repeat(Sentence, 3), 99) \o Repeat(" ", 20),
      Repeat(Sentence, 4),
      "Budget  vote\n" \o Repeat("The council   voted.... on the measure ---- today.\n\n", 3),
      Repeat("word   \n\n\n", 12) }

LibraryOutcomes ==
    {[kind |-> "raises", content |-> None, title |-> None, author |-> None,
      via |-> "selector"]}
    \cup [kind : {"returns"}, content : ExtractContents,
          title : {None, "  Council Approves   Budget "}, author : {None},
          via : {"selector"}]

\* what the DOM heuristics find: as above, under a content selector or in the body
SoupOutcomes ==
    LibraryOutcomes
    \cup [kind : {"returns"}, content : ExtractContents, title : {None}, author : {None},
          via : {"body"}]

ContentTypes ==
    { None, "", "text/html; charset=utf-8", "TEXT/HTML", "application/xhtml+xml",
      "application/json", "text/plain", "application/pdf" }

ExtractResponses ==
    [body : {"", "<html>"}, content_type : ContentTypes, text : {"ok", "not_text"},
     trafilatura : LibraryOutcomes, soup : SoupOutcomes]

IdleExtract ==
    /\ extract_args = [body |-> "", content_type |-> None, text |-> "ok",
                       trafilatura |-> [kind |-> "raises", content |-> None,
                                        title |-> None, author |-> None,
                                        via |-> "selector"],
                       soup |-> [kind |-> "raises", content |-> None,
                                 title |-> None, author |-> None, via |-> "selector"]]
    /\ extract_outcome = NotCalled

InitExtract ==
    /\ extract_args \in ExtractResponses
    /\ extract_outcome = NotCalled

\* one call extract_article(response)
ExtractArticle ==
    /\ extract_outcome = NotCalled
    /\ extract_outcome' = extract_article(extract_args)
    /\ UNCHANGED <<extract_args, save_vars, classify_vars, link_vars, spider_vars>>
    /\ UNCHANGED <<summarize_vars, sanitize_vars, fallback_vars, flush_vars, worker_vars>>

-----------------------------------------------------------------------------
(* scraper/link_filters.py, with urllib.parse as the code calls it *)

SchemeChars == UpperSet \cup LowerSet \cup DigitSet \cup {"+", "-", "."}
uses_relative == {"", "ftp", "http", "https", "file", "sftp"}
uses_netloc == {"", "ftp", "http", "https", "file", "sftp", "ws", "wss"}
uses_params == {"", "ftp", "http", "https", "sftp", "tel"}

\* str.lstrip() of the leading blanks urlsplit removes
LStrip(s) ==
    LET keep == {i \in 1..Len(s) : ~IsSpace(Char(s, i))}
    IN  IF keep = {} THEN "" ELSE SubSeq(s, Min(keep), Len(s))

\* s.split(c, 1): the text before and after the first c
Before(s, c) == SplitFirst(s, c)
After(s, c) == LET M == Matches(s, c) IN IF M = {} THEN "" ELSE From(s, Min(M))

\* urllib.parse.urlsplit(url, scheme)
urlsplit(url, default_scheme) ==
    LET FirstIn(S, otherwise) == IF S = {} THEN otherwise ELSE Min(S)
        \* u2 is what follows the netloc, u3 is u2 without its fragment
        Components(scheme, netloc, u2, u3) ==
            [scheme |-> scheme, netloc |-> netloc, path |-> Before(u3, "?"),
             query |-> After(u3, "?"), fragment |-> After(u2, "#")]
        AfterNetloc(scheme, netloc, u2) == Components(scheme, netloc, u2, Before(u2, "#"))
        \* u1 is what follows the scheme, cut is the place where its netloc ends
        SplitNetloc(scheme, u1, has_netloc, cut) ==
            AfterNetloc(scheme,
                        IF has_netloc THEN SubSeq(u1, 3, cut - 1) ELSE "",
                        IF has_netloc THEN From(u1, cut - 1) ELSE u1)
        AfterScheme(scheme, u1) ==
            SplitNetloc(scheme, u1, StartsWith(u1, "//"),
                        FirstIn({k \in 3..Len(u1) : Char(u1, k) \in {"/", "?", "#"}},
                                Len(u1) + 1))
        SplitScheme(u0, i, has_scheme) ==
            AfterScheme(IF has_scheme THEN Lower(SubSeq(u0, 1, i - 1)) ELSE default_scheme,
                        IF has_scheme THEN From(u0, i) ELSE u0)
        \* i is the place of the first colon of u0, or 0
        FindScheme(u0, i) ==
            SplitScheme(u0, i,
                        /\ i > 1
                        /\ (Char(u0, 1) \in UpperSet \/ Char(u0, 1) \in LowerSet)
                        /\ \A k \in 1..(i - 1) : Char(u0, k) \in SchemeChars)
        Stripped(u0) == FindScheme(u0, FirstIn(Matches(u0, ":"), 0))
    IN  Stripped(RemoveAll(RemoveAll(LStrip(url), "\t"), "\n"))

\* urllib.parse.urlparse(url, scheme): urlsplit, then the parameters of the last
\* path segment are split off
urlparse(url, default_scheme) ==
    LET SplitParams(sp, semi, split) ==
            [scheme |-> sp.scheme, netloc |-> sp.netloc,
             path |-> IF split THEN SubSeq(sp.path, 1, Min(semi) - 1) ELSE sp.path,
             params |-> IF split THEN From(sp.path, Min(semi)) ELSE "",
             query |-> sp.query, fragment |-> sp.fragment]
        FindParams(sp, semi) == SplitParams(sp, semi, sp.scheme \in uses_params /\ semi # {})
        LastSegment(sp, slash) ==
            FindParams(sp, {k \in Matches(sp.path, ";") : slash = {} \/ k > Max(slash)})
        Parsed(sp) == LastSegment(sp, Matches(sp.path, "/"))
    IN  Parsed(urlsplit(url, default_scheme))

\* urllib.parse.urlunparse(components)
urlunparse(c) ==
    LET WithFragment(u3) == IF c.fragment # "" THEN u3 \o "#" \o c.fragment ELSE u3
        WithQuery(u2) == WithFragment(IF c.query # "" THEN u2 \o "?" \o c.query ELSE u2)
        WithScheme(u1) == WithQuery(IF c.scheme # "" THEN c.scheme \o ":" \o u1 ELSE u1)
        WithNetloc(u0) ==
            WithScheme(
                IF \/ c.netloc # ""
                   \/ (c.scheme # "" /\ c.scheme \in uses_netloc /\ ~StartsWith(u0, "//"))
                THEN "//" \o c.netloc \o
                     (IF u0 # "" /\ ~StartsWith(u0, "/") THEN "/" \o u0 ELSE u0)
                ELSE u0)
    IN  WithNetloc(IF c.params # "" THEN c.path \o ";" \o c.params ELSE c.path)

\* urljoin's loop over the segments: '..' pops, '.' is skipped
RECURSIVE ResolveSegments(_, _, _)
ResolveSegments(segments, k, resolved) ==
    IF k > Len(segments) THEN resolved
    ELSE IF segments[k] = ".."
    THEN ResolveSegments(segments, k + 1,
             IF Len(resolved) = 0 THEN resolved ELSE SubSeq(resolved, 1, Len(resolved) - 1))
    ELSE IF segments[k] = "." THEN ResolveSegments(segments, k + 1, resolved)
    ELSE ResolveSegments(segments, k + 1, Append(resolved, segments[k]))

\* urllib.parse.urljoin(base, url)
urljoin(base, url) ==
    LET JoinPath(resolved) == JoinWith(resolved, "/", 1, Len(resolved))
        Unparsed(u, netloc, path) ==
            urlunparse([scheme |-> u.scheme, netloc |-> netloc,
                        path |-> IF path = "" THEN "/" ELSE path,
                        params |-> u.params, query |-> u.query,
                        fragment |-> u.fragment])
        Closing(segments, resolved0) ==
            IF segments[Len(segments)] \in {".", ".."}
            THEN Append(resolved0, "") ELSE resolved0
        Resolve(u, netloc, segments) ==
            Unparsed(u, netloc,
                     JoinPath(Closing(segments, ResolveSegments(segments, 1, <<>>))))
        Merge(u, netloc, joined) ==
            Resolve(u, netloc,
                    IF StartsWith(u.path, "/") THEN Split(u.path, "/")
                    ELSE Select(joined,
                                {k \in 1..Len(joined) :
                                    k = 1 \/ k = Len(joined) \/ joined[k] # ""}))
        BaseParts(bp) == IF bp[Len(bp)] # "" THEN SubSeq(bp, 1, Len(bp) - 1) ELSE bp
        Relative(b, u, netloc) ==
            IF u.path = "" /\ u.params = ""
            THEN urlunparse([scheme |-> u.scheme, netloc |-> netloc, path |-> b.path,
                             params |-> b.params,
                             query |-> IF u.query = "" THEN b.query ELSE u.query,
                             fragment |-> u.fragment])
            ELSE Merge(u, netloc, BaseParts(Split(b.path, "/")) \o Split(u.path, "/"))
        Joined(b, u) ==
            IF u.scheme # b.scheme \/ u.scheme \notin uses_relative THEN url
            ELSE IF u.scheme \in uses_netloc /\ u.netloc # "" THEN urlunparse(u)
            ELSE Relative(b, u, IF u.scheme \in uses_netloc THEN b.netloc ELSE u.netloc)
        WithBase(b) == Joined(b, urlparse(url, b.scheme))
    IN  IF base = "" THEN url
        ELSE IF url = "" THEN base
        ELSE WithBase(urlparse(base, ""))

tracking_params ==
    {"utm_source", "utm_medium", "utm_campaign", "utm_term", "utm_content",
     "fbclid", "gclid", "ref", "source", "campaign", "_ga", "mc_cid"}

\* _clean_url that leaves the fragment in place
_clean_url_keep_fragment(url) ==
    LET Rebuilt(clean_url, query_params) ==
            IF Len(query_params) > 0
            THEN clean_url \o "?" \o JoinWith(query_params, "&", 1, Len(query_params))
                 \o (IF Contains(url, "#") THEN "#" \o After(url, "#") ELSE "")
            ELSE clean_url \o (IF Contains(url, "#") THEN "#" \o After(url, "#") ELSE "")
        Kept(params) ==
            Select(params,
                   {k \in DOMAIN params :
                        /\ Contains(params[k], "=")
                        /\ Lower(SplitFirst(params[k], "=")) \notin tracking_params})
        Params(query) == IF query = "" THEN <<>> ELSE Split(query, "&")
    IN  Rebuilt(SplitFirst(SplitFirst(url, "#"), "?"),
                Kept(Params(urlparse(url, "").query)))

\* _clean_url keeps the first piece of the URL before '#', and the query parameters
\* that have a '=' and whose key is no tracking parameter
_clean_url(url) ==
    LET Rebuilt(clean_url, query_params) ==
            IF Len(query_params) > 0
            THEN clean_url \o "?" \o JoinWith(query_params, "&", 1, Len(query_params))
            ELSE clean_url
        Kept(params) ==
            Select(params,
                   {k \in DOMAIN params :
                        /\ Contains(params[k], "=")
                        /\ Lower(SplitFirst(params[k], "=")) \notin tracking_params})
        Params(query) == IF query = "" THEN <<>> ELSE Split(query, "&")
    IN  Rebuilt(SplitFirst(SplitFirst(url, "#"), "?"),
                Kept(Params(urlparse(url, "").query)))

\* re.search of a pattern made of literal characters and \d, written with "d" marking
\* the digit positions: DigitPattern("/20dd/", s) is re.search(r'/20\d{2}/', s)
DigitPattern(pattern, s) ==
    \E i \in 1..(Len(s) - Len(pattern) + 1) :
        \A k \in 1..Len(pattern) :
            IF Char(pattern, k) = "d" THEN IsDigit(Char(s, i + k - 1))
            ELSE Char(s, i + k - 1) = Char(pattern, k)

\* re.match of the same kind of pattern at the start of s
DigitPrefix(pattern, s) ==
    /\ Len(s) >= Len(pattern)
    /\ \A k \in 1..Len(pattern) :
            IF Char(pattern, k) = "d" THEN IsDigit(Char(s, k))
            ELSE Char(s, k) = Char(pattern, k)

\* re.search(r'[-_]\w+[-_]\w+[-_]\w+', s)
LongSlug(s) ==
    LET Sep(k) == Char(s, k) \in {"-", "_"}
        Words(a, b) == a + 1 < b /\ \A k \in (a + 1)..(b - 1) : IsWordChar(Char(s, k))
    IN  \E i \in 1..Len(s) : Sep(i) /\
        \E j \in (i + 2)..Len(s) : Sep(j) /\ Words(i, j) /\
        \E k \in (j + 2)..(Len(s) - 1) : Sep(k) /\ Words(j, k) /\ IsWordChar(Char(s, k + 1))

\* the exclude patterns of the form /name[/?]
exclude_sections ==
    {"live", "video", "videos", "photo", "photos", "gallery", "galleries", "tag", "tags",
     "category", "categories", "topic", "topics", "author", "authors", "search",
     "contact", "about", "privacy", "terms", "subscribe", "newsletter", "rss", "api",
     "feed"}
\* the exclude patterns of the form \.ext$
exclude_suffixes == {".xml", ".rss", ".json", ".pdf"}

\* some exclude pattern is found in the lower-cased URL; '$' matches at the end and
\* before a final newline
MatchesExclude(url_lower) ==
    \/ \E name \in exclude_sections :
          Contains(url_lower, "/" \o name \o "/") \/ Contains(url_lower, "/" \o name \o "?")
    \/ Contains(url_lower, "/sitemap")
    \/ \E ext \in exclude_suffixes :
          EndsWith(url_lower, ext) \/ EndsWith(url_lower, ext \o "\n")

article_sections ==
    {"news", "article", "articles", "story", "stories", "blog", "post", "posts", "review",
     "reviews", "opinion", "opinions", "feature", "features", "analysis", "commentary",
     "editorial"}

\* some article pattern is found in the lower-cased URL
MatchesArticle(url_lower) ==
    \/ \E name \in article_sections : Contains(url_lower, "/" \o name \o "/")
    \/ DigitPattern("/20dd/", url_lower)
    \/ DigitPattern("/dddd/dd/", url_lower)
    \/ DigitPattern("/dddd-dd-dd/", url_lower)
    \/ LongSlug(url_lower)

\* lines 165-174: a date-like or slug-like segment in a path of three or more segments
HasSlugSegment(path_segments) ==
    /\ Len(path_segments) >= 3
    /\ \E k \in DOMAIN path_segments :
          \/ DigitPrefix("20dd", path_segments[k])
          \/ DigitPrefix("dddd-dd-dd", path_segments[k])
          \/ (Len(path_segments[k]) > 10 /\ Contains(path_segments[k], "-"))

\* [seg for seg in path.split('/') if seg and seg != '']
PathSegments(path) ==
    LET NonEmpty(pieces) == Select(pieces, {k \in DOMAIN pieces : pieces[k] # ""})
    IN  NonEmpty(Split(path, "/"))

\* _looks_like_article with the two pattern lists consulted in the other order
_looks_like_article_include_first(url) ==
    LET Decide(url_lower, path) ==
            IF MatchesArticle(url_lower) THEN TRUE
            ELSE IF MatchesExclude(url_lower) THEN FALSE
            ELSE IF HasSlugSegment(PathSegments(path)) THEN TRUE
            ELSE Len(path) > 20 /\ Count(path, "-") >= 2
    IN  Decide(Lower(url), Lower(urlparse(url, "").path))

_looks_like_article(url) ==
    LET Decide(url_lower, path) ==
            IF MatchesExclude(url_lower) THEN FALSE
            ELSE IF MatchesArticle(url_lower) THEN TRUE
            ELSE IF HasSlugSegment(PathSegments(path)) THEN TRUE
            ELSE Len(path) > 20 /\ Count(path, "-") >= 2
    IN  Decide(Lower(url), Lower(urlparse(url, "").path))

\* Candidate without the same-site test
Candidate_any_host(homepage_url, link) ==
    LET Tested(clean_url) ==
            IF clean_url = "" THEN None
            ELSE IF _looks_like_article(clean_url) THEN clean_url
            ELSE None
        SameSite(absolute_url) == Tested(_clean_url(absolute_url))
    IN  SameSite(urljoin(homepage_url, link))

\* Candidate with the article test applied to the URL before it is cleaned
Candidate_test_before_clean(homepage_url, link) ==
    LET Tested(absolute_url, clean_url) ==
            IF clean_url = "" THEN None
            ELSE IF _looks_like_article(absolute_url) THEN clean_url
            ELSE None
        SameSite(absolute_url) ==
            IF Lower(urlparse(absolute_url, "").netloc)
                 # Lower(urlparse(homepage_url, "").netloc)
            THEN None
            ELSE Tested(absolute_url, _clean_url(absolute_url))
    IN  SameSite(urljoin(homepage_url, link))

\* the loop body, lines 29-45: the cleaned URL a link contributes, or None when the
\* link is skipped
Candidate(homepage_url, link) ==
    LET Tested(clean_url) ==
            IF clean_url = "" THEN None
            ELSE IF _looks_like_article(clean_url) THEN clean_url
            ELSE None
        SameSite(absolute_url) ==
            IF Lower(urlparse(absolute_url, "").netloc)
                 # Lower(urlparse(homepage_url, "").netloc)
            THEN None
            ELSE Tested(_clean_url(absolute_url))
    IN  SameSite(urljoin(homepage_url, link))

Homepages == {"https://example.com", "https://Example.com/world/index.html"}

\* href values found on a homepage
RawLinks ==
    { "/news/story-one", "/news/story-one#top", "/tag/politics", "/category/world",
      "/news/live?utm_source=a", "/news/live/?id=7&utm_source=a",
      "https://other.org/news/story-one", "https://sub.example.com/news/story-one",
      "https://EXAMPLE.com/blog/post-two?fbclid=x1&page=2#comments",
      "/about#/news/x", "latest/this-is-a-long-slug",
      "/news/story-one?utm_source=a",
      "https://EXAMPLE.com/blog/post-two?page=2&UTM_Medium=m" }

\* Candidate on the homepages and links above and on what it returns for them,
\* evaluated once
CandidateTable ==
    [h \in Homepages |->
        LET first == [l \in RawLinks |-> Candidate(h, l)]
            again == {first[l] : l \in RawLinks} \ (RawLinks \cup {None})
        IN  [l \in RawLinks \cup again |->
                IF l \in RawLinks THEN first[l] ELSE Candidate(h, l)]]

CandidateOf(homepage_url, link) ==
    IF homepage_url \in Homepages /\ link \in DOMAIN CandidateTable[homepage_url]
    THEN CandidateTable[homepage_url][link]
    ELSE Candidate(homepage_url, link)

\* suggest_article_links(homepage_url, links): the set article_links; the list the
\* function returns is this set in an order the set iteration decides
suggest_article_links(homepage_url, links) ==
    {CandidateOf(homepage_url, links[i]) : i \in DOMAIN links} \ {None}

-----------------------------------------------------------------------------
(* Filtering the links of one homepage *)

MaxLinks == 3

\* all orders in which a set can be listed: list(set) fixes none
Orders(S) ==
    {f \in [1..Cardinality(S) -> S] : \A i, j \in DOMAIN f : i # j => f[i] # f[j]}

IdleLinks ==
    /\ homepage = "https://example.com"
    /\ hrefs = <<>>
    /\ link_phase = "collect"
    /\ article_links = <<>>
    /\ fed_back = <<>>

InitLinks ==
    /\ homepage \in Homepages
    /\ hrefs = <<>>
    /\ link_phase = "collect"
    /\ article_links = <<>>
    /\ fed_back = <<>>

\* the page has one more link
AddLink ==
    /\ link_phase = "collect"
    /\ Len(hrefs) < MaxLinks
    /\ \E link \in RawLinks : hrefs' = Append(hrefs, link)
    /\ UNCHANGED <<homepage, link_phase, article_links, fed_back>>
    /\ UNCHANGED <<save_vars, classify_vars, spider_vars, pure_vars>>

\* article_links = suggest_article_links(homepage, hrefs)
Suggest ==
    /\ link_phase = "collect"
    /\ \E result \in Orders(suggest_article_links(homepage, hrefs)) :
          article_links' = result
    /\ link_phase' = "suggested"
    /\ UNCHANGED <<homepage, hrefs, fed_back>>
    /\ UNCHANGED <<save_vars, classify_vars, spider_vars, pure_vars>>

\* fed_back = suggest_article_links(homepage, article_links)
FeedBack ==
    /\ link_phase = "suggested"
    /\ \E result \in Orders(suggest_article_links(homepage, article_links)) :
          fed_back' = result
    /\ link_phase' = "fed_back"
    /\ UNCHANGED <<homepage, hrefs, article_links>>
    /\ UNCHANGED <<save_vars, classify_vars, spider_vars, pure_vars>>

-----------------------------------------------------------------------------
(* scraper/save.py: file names *)

DefaultMaxLength == 100

\* re.sub(r'[^\w\s-]', '', s)
RemoveUnsafe(s) ==
    Join([i \in 1..Len(s) |->
            LET c == Char(s, i)
            IN  IF IsWordChar(c) \/ IsSpace(c) \/ c = "-" THEN c ELSE ""],
         1, Len(s))

\* re.sub(r'\s+', '-', s): every run of whitespace becomes one hyphen
SpacesToHyphen(s) ==
    Join([i \in 1..Len(s) |->
            LET c == Char(s, i)
            IN  IF ~IsSpace(c) THEN c
                ELSE IF i > 1 /\ IsSpace(Char(s, i - 1)) THEN "" ELSE "-"],
         1, Len(s))

\* re.sub(r'-+', '-', s)
CollapseHyphens(s) ==
    Join([i \in 1..Len(s) |->
            LET c == Char(s, i)
            IN  IF c = "-" /\ i > 1 /\ Char(s, i - 1) = "-" THEN "" ELSE c],
         1, Len(s))

sanitize_filename(title, max_length) ==
    IF title = None \/ title = "" THEN "untitled"
    ELSE LET cleaned == StripSet(CollapseHyphens(SpacesToHyphen(RemoveUnsafe(Lower(title)))),
                                 {"-"})
             cut == IF Len(cleaned) > max_length
                    THEN RStripSet(Prefix(cleaned, max_length), {"-"})
                    ELSE cleaned
         IN  IF cut = "" THEN "untitled" ELSE cut

\* hashlib.sha1(url.encode('utf-8')).hexdigest()[:8]: eight hex digits, one digest per
\* URL; distinct URLs of the model have distinct digests
Sha1Hex8(url) ==
    LET at == {i \in 1..Len(ArticleUrls) : ArticleUrls[i] = url}
    IN  "0000000" \o ToString(IF at = {} THEN 0 ELSE Min(at))

generate_filename_from_url(url) == "article-" \o Sha1Hex8(url)

-----------------------------------------------------------------------------
(* One call of sanitize_filename *)

\* Titles: absent, empty, blank, symbols only, hyphens and blanks only, plain words,
\* upper case, underscores, digits, symbols between words, hyphen runs, hyphens at
\* the ends, and a title longer than the default max_length
SanitizeTitles ==
    { None, "", "   ", "!!! ??? ***", " - - ", "-", "_", "a", "Budget",
      "Council Approves Budget", "  Hello,   World!  ", "snake_case_title",
      "__init__", "A -- B", "-- Leading and trailing --", "Top 10: Best-Of 2024",
      "a-b c", "ab -cd", "\tTabs\nand lines", Repeat("Very Long Title ", 8) }

MaxSanitizeLength == 12
SanitizeLengths == (1..MaxSanitizeLength) \cup {DefaultMaxLength}

IdleSanitize ==
    /\ sanitize_args = [title |-> None, max_length |-> DefaultMaxLength]
    /\ sanitize_outcome = NotCalled

InitSanitize ==
    /\ sanitize_args \in [title : SanitizeTitles, max_length : SanitizeLengths]
    /\ sanitize_outcome = NotCalled

\* one call sanitize_filename(title, max_length)
Sanitize ==
    /\ sanitize_outcome = NotCalled
    /\ sanitize_outcome' =
          [called |-> TRUE,
           returned |-> sanitize_filename(sanitize_args.title, sanitize_args.max_length)]
    /\ UNCHANGED <<sanitize_args, save_vars, classify_vars, link_vars, spider_vars>>
    /\ UNCHANGED <<summarize_vars, extract_vars, fallback_vars, flush_vars, worker_vars>>

\* sanitize_filename(title) on the titles of the records the model saves, evaluated once
SavedTitles ==
    {"Duplicate Title", "Duplicate Title 1", "Council Approves Budget", "Privacy Policy",
     "Weekend Deals List"}
FilenameTable == [t \in SavedTitles |-> sanitize_filename(t, DefaultMaxLength)]
FilenameOf(title) ==
    IF title \in SavedTitles THEN FilenameTable[title]
    ELSE sanitize_filename(title, DefaultMaxLength)

-----------------------------------------------------------------------------
(* scraper/s3_upload.py and scraper/save.py: the two sinks                    *)
(*                                                                         *)
(* A sink state st is [files, csv, s3, acc, hdr]: the output directory, the *)
(* rows of all_articles.csv, the bucket, and the two module globals of      *)
(* save.py.  io names what the platform does during the call:               *)
(*   io.put  : s3_client.put_object  -- "ok", "client_error", "exception"   *)
(*   io.json : open()/json.dump of the local JSON file                      *)
(*             -- "ok", "open_error", "dump_error"                          *)
(*   io.csv  : open() of the local CSV file -- "ok", "open_error"           *)
(***************************************************************************)

Header == [kind |-> "header"]
Row(article) == [kind |-> "row", id |-> article.id]
ArticleBody(article) == [kind |-> "article", id |-> article.id]
PartialBody == [kind |-> "partial"]

\* s3_upload.is_s3_configured
is_s3_configured(e) == e.s3_enabled /\ e.bucket

\* s3_upload.get_s3_uploader: None (FALSE) unless S3_UPLOAD_ENABLED is true and
\* S3Uploader() finds a bucket name and creates its client
get_s3_uploader(e) == e.s3_enabled /\ e.bucket /\ e.client_ok

\* S3Uploader.upload_article_json: one put_object to <prefix>/<filename>; every
\* exception is caught and turned into False
upload_article_json(st, article, filename, io) ==
    LET name == IF EndsWith(filename, ".json") THEN filename ELSE filename \o ".json"
    IN  IF io.put = "ok"
        THEN [st |-> [st EXCEPT !.s3 = [k \in DOMAIN st.s3 \cup {name} |->
                                          IF k = name THEN ArticleBody(article) ELSE st.s3[k]]],
              ok |-> TRUE, key |-> name]
        ELSE [st |-> st, ok |-> FALSE, key |-> name]

\* save._upload_csv_to_s3: the header once, then the row, into the module globals
_upload_csv_to_s3(st, article) ==
    LET withHeader == IF ~st.hdr THEN Append(st.acc, Header) ELSE st.acc
    IN  [st |-> [st EXCEPT !.acc = Append(withHeader, Row(article)), !.hdr = TRUE],
         ok |-> TRUE]

\* save._upload_article_to_s3
_upload_article_to_s3(st, article, json_filename, e, io) ==
    IF ~get_s3_uploader(e)
    THEN [st |-> st, ok |-> FALSE, key |-> None, put |-> "none"]
    ELSE LET up == upload_article_json(st, article, json_filename, io)
         IN  IF up.ok
             THEN LET c == _upload_csv_to_s3(up.st, article)
                  IN  [st |-> c.st, ok |-> c.ok, key |-> up.key, put |-> io.put]
             ELSE [st |-> st, ok |-> FALSE, key |-> None, put |-> io.put]

\* _append_to_csv that writes the header on every call
_append_to_csv_header_always(st, article, io) ==
    IF io.csv # "ok"
    THEN [st |-> st, ok |-> FALSE]
    ELSE [st |-> [st EXCEPT !.csv = Append(Append(st.csv, Header), Row(article))],
          ok |-> TRUE]

\* save._append_to_csv
_append_to_csv(st, article, io) ==
    IF io.csv # "ok"
    THEN [st |-> st, ok |-> FALSE]
    ELSE LET file_exists == st.csv # <<>>
             withHeader == IF ~file_exists THEN Append(st.csv, Header) ELSE st.csv
         IN  [st |-> [st EXCEPT !.csv = Append(withHeader, Row(article))], ok |-> TRUE]

\* save._save_article_locally, lines 155-160: the first free name among
\* <base>.json, <base>-1.json, <base>-2.json, ...
RECURSIVE FreeName(_, _, _, _)
FreeName(files, base_filename, json_filename, counter) ==
    IF json_filename \in DOMAIN files
    THEN FreeName(files, base_filename,
                  base_filename \o "-" \o ToString(counter) \o ".json", counter + 1)
    ELSE json_filename

\* save._save_article_locally
_save_article_locally(st, article, json_filename, io) ==
    LET name == FreeName(st.files, RemoveAll(json_filename, ".json"), json_filename, 1)
        put(body) == [st EXCEPT !.files = [k \in DOMAIN st.files \cup {name} |->
                                             IF k = name THEN body ELSE st.files[k]]]
    IN  IF io.json = "open_error"
        THEN [st |-> st, ok |-> FALSE, key |-> None]
        ELSE IF io.json = "dump_error"
        THEN [st |-> put(PartialBody), ok |-> FALSE, key |-> None]
        ELSE LET c == _append_to_csv(put(ArticleBody(article)), article, io)
             IN  [st |-> c.st, ok |-> c.ok, key |-> name]

\* write_json_per_article with the remote branch retrying against the local sink
write_json_per_article_local_fallback(st, article, use_s3, e, io) ==
    LET Local(r, sink, put) ==
            [st |-> r.st, ok |-> r.ok, key |-> r.key, sink |-> sink, put |-> put]
        Remote(r, json_filename) ==
            IF r.ok
            THEN [st |-> r.st, ok |-> TRUE, key |-> r.key, sink |-> "s3", put |-> r.put]
            ELSE Local(_save_article_locally(st, article, json_filename, io), "s3", r.put)
        Write(json_filename, s3) ==
            IF s3 /\ e.S3_AVAILABLE
            THEN Remote(_upload_article_to_s3(st, article, json_filename, e, io),
                        json_filename)
            ELSE Local(_save_article_locally(st, article, json_filename, io),
                       "local", "none")
        Named(has_title) ==
            Write((IF has_title THEN FilenameOf(article.title)
                   ELSE generate_filename_from_url(article.url)) \o ".json",
                  IF use_s3 = "None" THEN e.S3_AVAILABLE /\ is_s3_configured(e)
                  ELSE use_s3 = "True")
    IN  Named(article.title # None /\ article.title # "")

\* save.write_json_per_article.  use_s3 is "True", "False" or "None" (auto-detect).
\* The result also reports which sink ran and what the remote put did.
write_json_per_article(st, article, use_s3, e, io) ==
    LET Remote(r) ==
            [st |-> r.st, ok |-> r.ok, key |-> r.key, sink |-> "s3", put |-> r.put]
        Local(r) ==
            [st |-> r.st, ok |-> r.ok, key |-> r.key, sink |-> "local", put |-> "none"]
        Write(json_filename, s3) ==
            IF s3 /\ e.S3_AVAILABLE
            THEN Remote(_upload_article_to_s3(st, article, json_filename, e, io))
            ELSE Local(_save_article_locally(st, article, json_filename, io))
        Named(has_title) ==
            IF ~has_title /\ article.url = None
            THEN \* generate_filename_from_url(None) raises; caught at line 141
                 [st |-> st, ok |-> FALSE, key |-> None, sink |-> "none", put |-> "none"]
            ELSE Write((IF has_title THEN FilenameOf(article.title)
                        ELSE generate_filename_from_url(article.url)) \o ".json",
                       IF use_s3 = "None" THEN e.S3_AVAILABLE /\ is_s3_configured(e)
                       ELSE use_s3 = "True")
    IN  Named(article.title # None /\ article.title # "")

-----------------------------------------------------------------------------
(* Persisting records one after another into one destination *)

MaxWrites == 3

\* Records handed to write_json_per_article: two with the same title (the pair of
\* tests/test_save.py::test_duplicate_filename_handling), one whose title is the first
\* one's with a numeric suffix, and one without a title
SaveArticles ==
    { [id |-> 1, title |-> "Duplicate Title", url |-> ArticleUrls[1]],
      [id |-> 2, title |-> "Duplicate Title", url |-> ArticleUrls[2]],
      [id |-> 3, title |-> "Duplicate Title 1", url |-> ArticleUrls[3]],
      [id |-> 4, title |-> None, url |-> ArticleUrls[3]] }

\* What the platform can do during one call (at most one fault per call)
AllOk == [put |-> "ok", json |-> "ok", csv |-> "ok"]
IoOutcomes ==
    { AllOk,
      [AllOk EXCEPT !.put = "client_error"], [AllOk EXCEPT !.put = "exception"],
      [AllOk EXCEPT !.json = "open_error"], [AllOk EXCEPT !.json = "dump_error"],
      [AllOk EXCEPT !.csv = "open_error"] }

\* Environments: the remote sink usable; its module missing; not enabled; enabled
\* but the client cannot be created.  use_s3 is the run-wide sink switch.
EnvOk == [S3_AVAILABLE |-> TRUE, s3_enabled |-> TRUE, bucket |-> TRUE, client_ok |-> TRUE,
          use_s3 |-> "None"]
Environments ==
    { [base EXCEPT !.use_s3 = u] :
        base \in {EnvOk, [EnvOk EXCEPT !.S3_AVAILABLE = FALSE],
                  [EnvOk EXCEPT !.s3_enabled = FALSE], [EnvOk EXCEPT !.client_ok = FALSE]},
        u \in {"None", "True", "False"} }

SinkState == [files |-> local_files, csv |-> local_csv, s3 |-> s3_objects,
              acc |-> s3_csv_content, hdr |-> s3_csv_headers_written]

InitSinks ==
    /\ local_files = <<>>
    /\ local_csv = <<>>
    /\ s3_objects = <<>>
    /\ s3_csv_content = <<>>
    /\ s3_csv_headers_written = FALSE
    /\ write_log = <<>>

InitSave ==
    /\ InitSinks
    /\ env \in Environments

\* One call write_json_per_article(article, out_dir, use_s3)
WriteArticle(article, io) ==
    \E r \in {write_json_per_article(SinkState, article, env.use_s3, env, io)} :
        /\ local_files' = r.st.files
        /\ local_csv' = r.st.csv
        /\ s3_objects' = r.st.s3
        /\ s3_csv_content' = r.st.acc
        /\ s3_csv_headers_written' = r.st.hdr
        /\ write_log' = Append(write_log,
               [id |-> article.id, sink |-> r.sink, put |-> r.put, ok |-> r.ok,
                key |-> r.key])
        /\ UNCHANGED env

Written == {write_log[i].id : i \in 1..Len(write_log)}

SaveWrite ==
    /\ Len(write_log) < MaxWrites
    /\ \E article \in SaveArticles, io \in IoOutcomes :
          /\ article.id \notin Written
          /\ WriteArticle(article, io)
    /\ UNCHANGED <<classify_vars, link_vars, spider_vars, pure_vars>>

-----------------------------------------------------------------------------
(* scraper/spiders/homepage_spider.py                                       *)
(*                                                                         *)
(* A spider state sp is [found, processed, saved, scraped, filtered]: the   *)
(* three counters and the two record lists of HomepageSpider.               *)
(***************************************************************************)

\* the put into s3 of body under key
PutObject(st, key, body) ==
    [st EXCEPT !.s3 = [k \in DOMAIN st.s3 \cup {key} |-> IF k = key THEN body ELSE st.s3[k]]]

\* save.finalize_s3_csv_upload with S3Uploader.upload_csv_content: one put of the
\* accumulated rows; only _s3_csv_content is declared global, so the assignment to
\* _s3_csv_headers_written stays local to the function
finalize_s3_csv_upload(st, io) ==
    IF st.acc = <<>> THEN [st |-> st, ok |-> TRUE]
    ELSE IF io.put = "ok"
    THEN [st |-> [PutObject(st, "all_articles.csv", [kind |-> "csv", rows |-> st.acc])
                    EXCEPT !.acc = <<>>],
          ok |-> TRUE]
    ELSE [st |-> st, ok |-> FALSE]

ReportBody(total_found, processed, saved, use_s3) ==
    [kind |-> "report", total_articles_found |-> total_found,
     articles_processed |-> processed, articles_saved |-> saved,
     storage_location |-> IF use_s3 THEN "S3 bucket" ELSE "Local directory"]

\* save.create_summary_report: scrape_summary.json goes to the bucket when use_s3 and
\* the S3 module is there, else into the output directory; every failure returns ''
create_summary_report(st, total_found, processed, saved, use_s3, e, io) ==
    LET body == ReportBody(total_found, processed, saved, use_s3)
    IN  IF use_s3 /\ e.S3_AVAILABLE
        THEN IF get_s3_uploader(e) /\ io.put = "ok"
             THEN [st |-> PutObject(st, "scrape_summary.json", body), location |-> "s3",
                   body |-> body]
             ELSE [st |-> st, location |-> "", body |-> body]
        ELSE IF io.json = "ok"
        THEN [st |-> [st EXCEPT !.files =
                        [k \in DOMAIN st.files \cup {"scrape_summary.json"} |->
                            IF k = "scrape_summary.json" THEN body ELSE st.files[k]]],
              location |-> "local", body |-> body]
        ELSE [st |-> st, location |-> "", body |-> body]

\* What extract_article can return for the page behind each article URL: nothing, or
\* a record with a title (or none), an author (or none) and at least 100 characters
\* of content
Extractions ==
    [u \in Range(ArticleUrls) |->
        IF u = ArticleUrls[1]
        THEN {NoArticle,
              Extracted("Council Approves Budget", "Jane Doe", Repeat(Sentence, 26))}
        ELSE IF u = ArticleUrls[2]
        THEN {Extracted("Council Approves Budget", None, Repeat(Sentence, 26)),
              Extracted("Privacy Policy", "Staff", Repeat("We respect your privacy. ", 6))}
        ELSE {Extracted(None, None, Prefix(Repeat(Sentence, 4), 149)),
              Extracted("Weekend Deals List", "Staff",
                        Repeat("Browse the menu. Select a filter. ", 8))}]

\* a fetched article page: its URL and what extract_article makes of it
Responses ==
    UNION {{[url |-> u, extracted |-> x] : x \in Extractions[u]} : u \in Range(ArticleUrls)}

\* the fields is_actual_article reads
ClassifierView(article) ==
    [title |-> article.title, author |-> article.author, content |-> article.content,
     url |-> article.url]

\* is_actual_article on the records the pages above give, evaluated once
VerdictTable ==
    [v \in {[title |-> r.extracted.title, author |-> r.extracted.author,
             content |-> r.extracted.content, url |-> r.url] :
               r \in {q \in Responses : q.extracted # NoArticle}} |-> is_actual_article(v)]
Verdict(article) ==
    LET v == ClassifierView(article)
    IN  IF v \in DOMAIN VerdictTable THEN VerdictTable[v] ELSE is_actual_article(v)

\* HomepageSpider.filter_articles, lines 256-270: one is_actual_article call per
\* scraped record; accepted records and records whose call raised are kept
RECURSIVE FilterLoop(_, _, _, _)
FilterLoop(scraped, k, filtered, verdicts) ==
    LET Judged(v) ==
            FilterLoop(scraped, k + 1,
                       IF v.raised # "" \/ v.accepted
                       THEN Append(filtered, scraped[k]) ELSE filtered,
                       Append(verdicts, [id |-> scraped[k].id, outcome |-> v]))
    IN  IF k > Len(scraped) THEN [filtered |-> filtered, verdicts |-> verdicts]
        ELSE Judged(Verdict(scraped[k]))

\* HomepageSpider.filter_articles: without the classifier module every scraped
\* record is kept
filter_articles(sp, importable) ==
    LET Kept(r) == [sp |-> [sp EXCEPT !.filtered = r.filtered], verdicts |-> r.verdicts]
    IN  IF ~importable
        THEN [sp |-> [sp EXCEPT !.filtered = sp.scraped], verdicts |-> <<>>]
        ELSE Kept(FilterLoop(sp.scraped, 1, sp.filtered, <<>>))

\* the loop of save_filtered_articles if it ended at the first failed write
RECURSIVE SaveLoop_until_failure(_, _, _, _, _, _, _)
SaveLoop_until_failure(filtered, k, st, saved, log, e, puts) ==
    LET Logged(r) ==
            IF r.ok
            THEN SaveLoop_until_failure(filtered, k + 1, r.st, saved + 1,
                     Append(log, [id |-> filtered[k].id, sink |-> r.sink, put |-> r.put,
                                  ok |-> r.ok, key |-> r.key]),
                     e, puts)
            ELSE [st |-> r.st, saved |-> saved,
                  log |-> Append(log, [id |-> filtered[k].id, sink |-> r.sink,
                                       put |-> r.put, ok |-> r.ok, key |-> r.key])]
    IN  IF k > Len(filtered) THEN [st |-> st, saved |-> saved, log |-> log]
        ELSE Logged(write_json_per_article(st, filtered[k], "True", e,
                                           [AllOk EXCEPT !.put = puts[k]]))

\* HomepageSpider.save_filtered_articles, lines 317-328: one write_json_per_article
\* call per filtered record, with use_s3 = True
RECURSIVE SaveLoop(_, _, _, _, _, _, _)
SaveLoop(filtered, k, st, saved, log, e, puts) ==
    LET Logged(r) ==
            SaveLoop(filtered, k + 1, r.st, IF r.ok THEN saved + 1 ELSE saved,
                     Append(log, [id |-> filtered[k].id, sink |-> r.sink, put |-> r.put,
                                  ok |-> r.ok, key |-> r.key]),
                     e, puts)
    IN  IF k > Len(filtered) THEN [st |-> st, saved |-> saved, log |-> log]
        ELSE Logged(write_json_per_article(st, filtered[k], "True", e,
                                           [AllOk EXCEPT !.put = puts[k]]))

\* save_filtered_articles without the two configuration tests of lines 307-314
save_filtered_articles_unchecked(sp, st, e, io) ==
    LET Finalized(w) ==
            [sp |-> [sp EXCEPT !.saved = w.saved],
             st |-> IF get_s3_uploader(e)
                    THEN finalize_s3_csv_upload(w.st, [AllOk EXCEPT !.put = io.csv_put]).st
                    ELSE w.st,
             log |-> w.log, raised |-> None]
    IN  Finalized(SaveLoop(sp.filtered, 1, st, sp.saved, <<>>, e, io.writes))

\* HomepageSpider.save_filtered_articles.  io.writes[k] is what put_object does for
\* the k-th record, io.csv_put what it does for all_articles.csv
save_filtered_articles(sp, st, e, io) ==
    LET Finalized(w) ==
            [sp |-> [sp EXCEPT !.saved = w.saved],
             st |-> IF get_s3_uploader(e)
                    THEN finalize_s3_csv_upload(w.st, [AllOk EXCEPT !.put = io.csv_put]).st
                    ELSE w.st,
             log |-> w.log, raised |-> None]
    IN  IF ~e.S3_AVAILABLE
        THEN [sp |-> sp, st |-> st, log |-> <<>>, raised |-> "S3 module not available"]
        ELSE IF ~is_s3_configured(e)
        THEN [sp |-> sp, st |-> st, log |-> <<>>,
              raised |-> "S3 configuration required but not found"]
        ELSE Finalized(SaveLoop(sp.filtered, 1, st, sp.saved, <<>>, e, io.writes))

\* HomepageSpider.closed: filter and save when something was scraped, then the
\* summary report; an exception of save_filtered_articles leaves closed() at once
closed(sp, st, e, io) ==
    LET Reported(f, s, r) ==
            [sp |-> s.sp, verdicts |-> f.verdicts, log |-> s.log, raised |-> s.raised,
             st |-> IF s.raised # None THEN s.st ELSE r.st,
             reports |-> IF s.raised # None THEN <<>>
                         ELSE <<[by |-> "closed", location |-> r.location,
                                 body |-> r.body]>>]
        Saved(f, s) ==
            Reported(f, s,
                     create_summary_report(s.st, s.sp.found, s.sp.processed, s.sp.saved,
                                           e.S3_AVAILABLE /\ is_s3_configured(e), e,
                                           [AllOk EXCEPT !.put = io.report_put,
                                                         !.json = io.report_file]))
        Filtered(f) ==
            Saved(f, IF Len(sp.scraped) > 0 THEN save_filtered_articles(f.sp, st, e, io)
                     ELSE [sp |-> sp, st |-> st, log |-> <<>>, raised |-> None])
    IN  Filtered(IF Len(sp.scraped) > 0 THEN filter_articles(sp, e.filter_importable)
                 ELSE [sp |-> sp, verdicts |-> <<>>])

\* parse_article, lines 141-151: the summary the record is stored with
SummaryFor(content, summary_enabled, model) ==
    IF Len(content) > 300 /\ Lower(summary_enabled) = "true"
    THEN summarize(content, Lower(summary_enabled) # "false", model)
    ELSE IF Len(content) <= 300 THEN content ELSE "N/A"

\* SummaryFor on the contents of the pages above, evaluated once
SummaryTable ==
    [c \in {r.extracted.content : r \in {q \in Responses : q.extracted # NoArticle}},
     en \in {"true", "False"}, m \in ModelOutcomes |-> SummaryFor(c, en, m)]
Summary(content, summary_enabled, model) ==
    IF <<content, summary_enabled, model>> \in DOMAIN SummaryTable
    THEN SummaryTable[content, summary_enabled, model]
    ELSE SummaryFor(content, summary_enabled, model)

\* parse_article that classifies and saves each record as soon as it is extracted
parse_article_streaming(sp, st, response, e, model) ==
    LET Stored(article, f, s) ==
            [sp |-> [sp EXCEPT !.processed = sp.processed + 1,
                               !.scraped = Append(sp.scraped, article),
                               !.filtered = sp.filtered \o f.sp.filtered,
                               !.saved = s.saved],
             st |-> s.st, verdicts |-> f.verdicts, log |-> s.log]
        Classified1(article, f) ==
            Stored(article, f, SaveLoop(f.sp.filtered, 1, st, sp.saved, <<>>, e, <<"ok">>))
        Buffered(article) ==
            Classified1(article,
                        filter_articles([sp EXCEPT !.scraped = <<article>>,
                                                   !.filtered = <<>>],
                                        e.filter_importable))
        Extract(x) ==
            IF x = NoArticle
            THEN [sp |-> [sp EXCEPT !.processed = sp.processed + 1], st |-> st,
                  verdicts |-> <<>>, log |-> <<>>]
            ELSE Buffered([id |-> CHOOSE i \in DOMAIN ArticleUrls :
                                      ArticleUrls[i] = response.url,
                           title |-> x.title, author |-> x.author, content |-> x.content,
                           summary |-> Summary(x.content, e.SUMMARY_ENABLED, model),
                           url |-> response.url])
    IN  Extract(response.extracted)

\* HomepageSpider.parse_article: count the page, extract, summarize, buffer.  The
\* result carries the sinks and the calls made on the classifier and on
\* write_json_per_article: parse_article makes none
parse_article(sp, st, response, e, model) ==
    LET Extract(x) ==
            IF x = NoArticle \/ x.content = None \/ x.content = ""
            THEN [sp |-> [sp EXCEPT !.processed = sp.processed + 1], st |-> st,
                  verdicts |-> <<>>, log |-> <<>>]
            ELSE [sp |-> [sp EXCEPT
                      !.processed = sp.processed + 1,
                      !.scraped = Append(sp.scraped,
                          [id |-> CHOOSE i \in DOMAIN ArticleUrls :
                                      ArticleUrls[i] = response.url,
                           title |-> x.title, author |-> x.author, content |-> x.content,
                           summary |-> Summary(x.content, e.SUMMARY_ENABLED, model),
                           url |-> response.url])],
                  st |-> st, verdicts |-> <<>>, log |-> <<>>]
    IN  Extract(response.extracted)

\* parse without the cut of lines 107-109: one request per candidate
parse_without_limit(sp, result, e) ==
    [sp |-> [sp EXCEPT !.found = Len(result)], requests |-> Range(result)]

\* HomepageSpider.parse: the candidates in the order list(set) gave them, cut to
\* max_articles when that is positive; one request per remaining candidate
parse(sp, result, e) ==
    LET limited == IF e.MAX_ARTICLES > 0 THEN SubSeq(result, 1, Min({Len(result), e.MAX_ARTICLES}))
                   ELSE result
    IN  [sp |-> [sp EXCEPT !.found = Len(result)], requests |-> Range(limited)]

-----------------------------------------------------------------------------
(* One run of the spider on one homepage *)

\* no save_filtered_articles run of the process model has happened
IdleFlush == flush_log = <<>>

\* no worker is inside _upload_csv_to_s3
IdleWorkers == worker_pc = <<>>

IdlePure ==
    IdleSummarize /\ IdleExtract /\ IdleSanitize /\ IdleFallback /\ IdleFlush /\ IdleWorkers

\* the href values of the homepage of the run
SpiderLinks ==
    <<"/news/first", "/news/second#comments", "/blog/third-post?utm_source=home",
      "/tag/politics", "https://other.org/news/elsewhere", "/news/first">>

SpiderEnv(s3, summary_enabled, max_articles, importable) ==
    [S3_AVAILABLE |-> s3.S3_AVAILABLE, s3_enabled |-> s3.s3_enabled, bucket |-> s3.bucket,
     client_ok |-> s3.client_ok, use_s3 |-> "True", SUMMARY_ENABLED |-> summary_enabled,
     MAX_ARTICLES |-> max_articles, filter_importable |-> importable]

\* The environments of a run: the defaults (MAX_ARTICLES 40, summaries on, remote sink
\* usable, classifier importable) and each single departure from them
SpiderEnvironments ==
    {SpiderEnv(EnvOk, "true", 40, TRUE)}
    \cup {SpiderEnv(s3, "true", 40, TRUE) :
            s3 \in {[EnvOk EXCEPT !.S3_AVAILABLE = FALSE], [EnvOk EXCEPT !.s3_enabled = FALSE],
                    [EnvOk EXCEPT !.client_ok = FALSE]}}
    \cup {SpiderEnv(EnvOk, "False", 40, TRUE), SpiderEnv(EnvOk, "true", 2, TRUE),
          SpiderEnv(EnvOk, "true", 0, TRUE), SpiderEnv(EnvOk, "true", 40, FALSE)}

PutOutcomes == {"ok", "client_error"}
ClosedIo ==
    [writes : [1..Len(ArticleUrls) -> PutOutcomes], csv_put : PutOutcomes,
     report_put : PutOutcomes, report_file : {"ok", "open_error"}]

SpiderState == [found |-> articles_found, processed |-> articles_processed,
                saved |-> articles_saved, scraped |-> scraped_articles,
                filtered |-> filtered_articles]

IdleSpider ==
    /\ spider_phase = "start"
    /\ pending = {}
    /\ articles_found = 0
    /\ articles_processed = 0
    /\ articles_saved = 0
    /\ scraped_articles = <<>>
    /\ filtered_articles = <<>>
    /\ verdict_log = <<>>
    /\ closed_raised = None
    /\ report_log = <<>>

Init ==
    /\ IdleSpider
    /\ InitSinks
    /\ env \in SpiderEnvironments
    /\ IdleClassify
    /\ homepage = "https://example.com"
    /\ hrefs = SpiderLinks
    /\ link_phase = "collect"
    /\ article_links = <<>>
    /\ fed_back = <<>>
    /\ IdlePure

SetSpider(sp) ==
    /\ articles_found' = sp.found
    /\ articles_processed' = sp.processed
    /\ articles_saved' = sp.saved
    /\ scraped_articles' = sp.scraped
    /\ filtered_articles' = sp.filtered

SetSinks(st) ==
    /\ local_files' = st.files
    /\ local_csv' = st.csv
    /\ s3_objects' = st.s3
    /\ s3_csv_content' = st.acc
    /\ s3_csv_headers_written' = st.hdr

\* the homepage response arrives: parse(response)
Parse ==
    /\ spider_phase = "start"
    /\ \E result \in Orders(suggest_article_links(homepage, hrefs)) :
          \E r \in {parse(SpiderState, result, env)} :
              /\ SetSpider(r.sp)
              /\ pending' = r.requests
    /\ spider_phase' = "crawling"
    /\ UNCHANGED <<verdict_log, closed_raised, report_log, save_vars>>
    /\ UNCHANGED <<classify_vars, link_vars, pure_vars>>

\* an article response arrives: parse_article(response)
ParseArticle ==
    /\ spider_phase = "crawling"
    /\ \E response \in Responses, model \in ModelOutcomes :
          /\ response.url \in pending
          /\ pending' = pending \ {response.url}
          /\ \E r \in {parse_article(SpiderState, SinkState, response, env, model)} :
                 /\ SetSpider(r.sp)
                 /\ SetSinks(r.st)
                 /\ verdict_log' = verdict_log \o r.verdicts
                 /\ write_log' = write_log \o r.log
    /\ UNCHANGED <<spider_phase, closed_raised, report_log, env>>
    /\ UNCHANGED <<classify_vars, link_vars, pure_vars>>

\* an article request fails: handle_error(failure) only logs
HandleError ==
    /\ spider_phase = "crawling"
    /\ \E url \in pending : pending' = pending \ {url}
    /\ UNCHANGED <<spider_phase, articles_found, articles_processed, articles_saved,
                   scraped_articles, filtered_articles, verdict_log, closed_raised,
                   report_log, save_vars>>
    /\ UNCHANGED <<classify_vars, link_vars, pure_vars>>

\* the engine closes the spider (no request left, or the crawl was stopped):
\* closed(reason).  No callback runs once the engine has sent this signal.
Closed ==
    /\ spider_phase \in {"start", "crawling"}
    /\ \E io \in ClosedIo :
          \E r \in {closed(SpiderState, SinkState, env, io)} :
              /\ SetSpider(r.sp)
              /\ SetSinks(r.st)
              /\ verdict_log' = verdict_log \o r.verdicts
              /\ write_log' = write_log \o r.log
              /\ closed_raised' = r.raised
              /\ report_log' = report_log \o r.reports
    /\ spider_phase' = "closed"
    /\ pending' = {}
    /\ UNCHANGED <<env, classify_vars, link_vars, pure_vars>>

Next ==
    \/ Parse
    \/ ParseArticle
    \/ HandleError
    \/ Closed

Spec == Init /\ [][Next]_vars

\* save.get_saved_articles_count: the .json files of the output directory
get_saved_articles_count(st) ==
    Cardinality({k \in DOMAIN st.files : EndsWith(k, ".json")})

ReportIo == [report_put : PutOutcomes, report_file : {"ok", "open_error"}]

\* run.run_scraper, lines 114-130: process.start() has returned (the spider is
\* closed; an exception of closed() is logged by the engine and does not reach
\* run_scraper), and run_scraper writes a summary report of its own
RunScraper ==
    /\ spider_phase = "closed"
    /\ \E io \in ReportIo :
          \E r \in {create_summary_report(SinkState, 0, 0,
                                          get_saved_articles_count(SinkState),
                                          env.S3_AVAILABLE /\ is_s3_configured(env), env,
                                          [AllOk EXCEPT !.put = io.report_put,
                                                        !.json = io.report_file])} :
              /\ SetSinks(r.st)
              /\ report_log' = Append(report_log,
                                      [by |-> "run_scraper", location |-> r.location,
                                       body |-> r.body])
    /\ spider_phase' = "finished"
    /\ UNCHANGED <<pending, articles_found, articles_processed, articles_saved,
                   scraped_articles, filtered_articles, verdict_log, closed_raised,
                   env, write_log>>
    /\ UNCHANGED <<classify_vars, link_vars, pure_vars>>

\* The run of run_scraper: the spider's run, then run_scraper's own report
NextRun ==
    \/ Parse
    \/ ParseArticle
    \/ HandleError
    \/ Closed
    \/ RunScraper

SpecRun == Init /\ [][NextRun]_vars

-----------------------------------------------------------------------------
(* Several runs in one process: the module globals of save.py outlive a run *)

MaxRuns == 2

\* the records the runs save: one with a title, one without
RunArticles == { a \in SaveArticles : a.id \in {1, 4} }

\* the filtered records of one run: one or two distinct records
RunRecords ==
    { <<a>> : a \in RunArticles } \cup
    { <<p[1], p[2]>> : p \in {q \in RunArticles \X RunArticles : q[1].id < q[2].id} }

\* what put_object does for each record of the run and for all_articles.csv
FlushIo == [writes : [1..2 -> PutOutcomes], csv_put : PutOutcomes]

\* the ids of the records whose write returned True, in the order of the writes
SavedIds(log) ==
    LET V == {i \in DOMAIN log : log[i].ok}
    IN  [j \in 1..Cardinality(V) |-> log[Kth(V, j)].id]

\* what one run leaves in flush_log.  finalize_s3_csv_upload puts the object when
\* the accumulator is not empty, and the put succeeds when io.csv_put is "ok"
FlushEntry(before, r, io) ==
    [saved |-> SavedIds(r.log),
     flushed |-> io.csv_put = "ok" /\ (before.acc # <<>> \/ SavedIds(r.log) # <<>>),
     rows |-> IF "all_articles.csv" \in DOMAIN r.st.s3
              THEN r.st.s3["all_articles.csv"].rows ELSE <<>>]

InitProcess ==
    /\ InitSinks
    /\ env = EnvOk
    /\ flush_log = <<>>
    /\ IdleClassify /\ IdleLinks /\ IdleSpider
    /\ IdleSummarize /\ IdleExtract /\ IdleSanitize /\ IdleFallback /\ IdleWorkers

\* One run: a new spider (its counters start at 0) saves its filtered records with
\* save_filtered_articles, which ends with finalize_s3_csv_upload; the module
\* globals _s3_csv_content and _s3_csv_headers_written are those of the process
PersistRun ==
    /\ Len(flush_log) < MaxRuns
    /\ \E filtered \in RunRecords, io \in FlushIo :
          \E r \in {save_filtered_articles([found |-> Len(filtered),
                                            processed |-> Len(filtered), saved |-> 0,
                                            scraped |-> filtered, filtered |-> filtered],
                                           SinkState, env, io)} :
              /\ SetSinks(r.st)
              /\ write_log' = write_log \o r.log
              /\ flush_log' = Append(flush_log, FlushEntry(SinkState, r, io))
    /\ UNCHANGED env
    /\ UNCHANGED <<classify_vars, link_vars, spider_vars>>
    /\ UNCHANGED <<summarize_vars, extract_vars, sanitize_vars, fallback_vars, worker_vars>>

NextProcess == PersistRun

SpecProcess == InitProcess /\ [][NextProcess]_vars

-----------------------------------------------------------------------------
(* Workers inside save._upload_csv_to_s3 at the same time.  The function   *)
(* takes no lock; a thread can be suspended between any two of its          *)
(* statements, and list.append and the store to the flag are each atomic.   *)
(* Worker w accumulates the row of record w.                                *)

MaxWorkers == 3

Workers == 1..MaxWorkers

InitWorkers ==
    /\ InitSinks
    /\ env = EnvOk
    /\ worker_pc = [w \in Workers |-> "check"]
    /\ IdleClassify /\ IdleLinks /\ IdleSpider
    /\ IdleSummarize /\ IdleExtract /\ IdleSanitize /\ IdleFallback /\ IdleFlush

\* line 225: if not _s3_csv_headers_written
CheckHeadersWritten ==
    /\ \E w \in Workers :
          /\ worker_pc[w] = "check"
          /\ worker_pc' = [worker_pc EXCEPT
                             ![w] = IF s3_csv_headers_written THEN "row" ELSE "header"]
    /\ UNCHANGED <<save_vars, classify_vars, link_vars, spider_vars>>
    /\ UNCHANGED <<summarize_vars, extract_vars, sanitize_vars, fallback_vars, flush_vars>>

\* lines 227-232: _s3_csv_content.append(<the header line>)
AppendHeader ==
    /\ \E w \in Workers :
          /\ worker_pc[w] = "header"
          /\ worker_pc' = [worker_pc EXCEPT ![w] = "flag"]
    /\ s3_csv_content' = Append(s3_csv_content, Header)
    /\ UNCHANGED <<local_files, local_csv, s3_objects, s3_csv_headers_written, env,
                   write_log>>
    /\ UNCHANGED <<classify_vars, link_vars, spider_vars>>
    /\ UNCHANGED <<summarize_vars, extract_vars, sanitize_vars, fallback_vars, flush_vars>>

\* line 233: _s3_csv_headers_written = True
SetHeadersWritten ==
    /\ \E w \in Workers :
          /\ worker_pc[w] = "flag"
          /\ worker_pc' = [worker_pc EXCEPT ![w] = "row"]
    /\ s3_csv_headers_written' = TRUE
    /\ UNCHANGED <<local_files, local_csv, s3_objects, s3_csv_content, env, write_log>>
    /\ UNCHANGED <<classify_vars, link_vars, spider_vars>>
    /\ UNCHANGED <<summarize_vars, extract_vars, sanitize_vars, fallback_vars, flush_vars>>

\* lines 236-243: _s3_csv_content.append(<the data row>); return True
AppendRow ==
    /\ \E w \in Workers :
          /\ worker_pc[w] = "row"
          /\ worker_pc' = [worker_pc EXCEPT ![w] = "done"]
          /\ s3_csv_content' = Append(s3_csv_content, Row([id |-> w]))
    /\ UNCHANGED <<local_files, local_csv, s3_objects, s3_csv_headers_written, env,
                   write_log>>
    /\ UNCHANGED <<classify_vars, link_vars, spider_vars>>
    /\ UNCHANGED <<summarize_vars, extract_vars, sanitize_vars, fallback_vars, flush_vars>>

NextWorkers ==
    \/ CheckHeadersWritten
    \/ AppendHeader
    \/ SetHeadersWritten
    \/ AppendRow

SpecWorkers == InitWorkers /\ [][NextWorkers]_vars

\* The component specifications: one component runs, the others stay idle
InitSaveOnly == InitSave /\ IdleClassify /\ IdleLinks /\ IdleSpider /\ IdlePure

NextSave == SaveWrite

SpecSave == InitSaveOnly /\ [][NextSave]_vars

InitClassifyOnly ==
    InitClassify /\ InitSinks /\ env = EnvOk /\ IdleLinks /\ IdleSpider /\ IdlePure

NextClassify == Classify

SpecClassify == InitClassifyOnly /\ [][NextClassify]_vars

InitLinksOnly ==
    InitLinks /\ InitSinks /\ env = EnvOk /\ IdleClassify /\ IdleSpider /\ IdlePure

NextLinks ==
    \/ AddLink
    \/ Suggest
    \/ FeedBack

SpecLinks == InitLinksOnly /\ [][NextLinks]_vars

InitSummarizeOnly ==
    /\ InitSummarize
    /\ InitSinks /\ env = EnvOk /\ IdleClassify /\ IdleLinks /\ IdleSpider
    /\ IdleExtract /\ IdleSanitize /\ IdleFallback /\ IdleFlush /\ IdleWorkers

NextSummarize == Summarize

SpecSummarize == InitSummarizeOnly /\ [][NextSummarize]_vars

InitExtractOnly ==
    /\ InitExtract
    /\ InitSinks /\ env = EnvOk /\ IdleClassify /\ IdleLinks /\ IdleSpider
    /\ IdleSummarize /\ IdleSanitize /\ IdleFallback /\ IdleFlush /\ IdleWorkers

NextExtract == ExtractArticle

SpecExtract == InitExtractOnly /\ [][NextExtract]_vars

InitSanitizeOnly ==
    /\ InitSanitize
    /\ InitSinks /\ env = EnvOk /\ IdleClassify /\ IdleLinks /\ IdleSpider
    /\ IdleSummarize /\ IdleExtract /\ IdleFallback /\ IdleFlush /\ IdleWorkers

NextSanitize == Sanitize

SpecSanitize == InitSanitizeOnly /\ [][NextSanitize]_vars

InitFallbackOnly ==
    /\ InitFallback
    /\ InitSinks /\ env = EnvOk /\ IdleClassify /\ IdleLinks /\ IdleSpider
    /\ IdleSummarize /\ IdleExtract /\ IdleSanitize /\ IdleFlush /\ IdleWorkers

NextFallback == Fallback

SpecFallback == InitFallbackOnly /\ [][NextFallback]_vars

-----------------------------------------------------------------------------
(* Claims about the sinks *)

\* C1: when the remote sink is selected and the remote write of a record fails (the
\* uploader is unavailable, or the put is rejected or raises), the call leaves the
\* output directory and the local CSV file as they were and returns False.
C1_NoLocalFallback ==
    [][ (/\ Len(write_log') = Len(write_log) + 1
         /\ write_log'[Len(write_log')].sink = "s3"
         /\ write_log'[Len(write_log')].put # "ok")
        => (/\ local_files' = local_files
            /\ local_csv' = local_csv
            /\ write_log'[Len(write_log')].ok = FALSE) ]_vars

\* C1 witness: a rejected put and a put that raised, both with the remote sink forced,
\* after which the output directory is still empty
C1_Witness ==
    /\ Len(write_log) >= 2
    /\ env.use_s3 = "True"
    /\ write_log[1].sink = "s3" /\ write_log[1].put = "client_error" /\ ~write_log[1].ok
    /\ write_log[2].sink = "s3" /\ write_log[2].put = "exception" /\ ~write_log[2].ok
    /\ local_files = <<>> /\ local_csv = <<>>

ArticleById(id) == CHOOSE a \in SaveArticles : a.id = id

DerivedSlug(article) ==
    IF article.title # None /\ article.title # ""
    THEN sanitize_filename(article.title, DefaultMaxLength)
    ELSE generate_filename_from_url(article.url)

Destination(w) == IF w.sink = "s3" THEN s3_objects ELSE local_files

Successful == {i \in 1..Len(write_log) : write_log[i].ok}

\* C2: records persisted into one destination are stored under pairwise distinct keys
\* and each is still there; of two records with the same derived slug the first is
\* stored as <slug>.json and, when it is the only earlier one, the second as
\* <slug>-1.json.
C2_DistinctKeys ==
    /\ \A i \in Successful :
          /\ write_log[i].key \in DOMAIN Destination(write_log[i])
          /\ Destination(write_log[i])[write_log[i].key] = ArticleBody(ArticleById(write_log[i].id))
    /\ \A i, j \in Successful :
          (i < j /\ write_log[i].sink = write_log[j].sink)
            => write_log[i].key # write_log[j].key
    /\ \A i, j \in Successful :
          (/\ i = 1 /\ j = 2
           /\ DerivedSlug(ArticleById(write_log[i].id)) = DerivedSlug(ArticleById(write_log[j].id)))
            => /\ write_log[i].key = DerivedSlug(ArticleById(write_log[i].id)) \o ".json"
               /\ write_log[j].key = DerivedSlug(ArticleById(write_log[j].id)) \o "-1.json"

\* the ids of the successful writes, in write order
RECURSIVE SuccessfulIds(_)
SuccessfulIds(log) ==
    IF Len(log) = 0 THEN <<>>
    ELSE IF log[Len(log)].ok
    THEN Append(SuccessfulIds(SubSeq(log, 1, Len(log) - 1)), log[Len(log)].id)
    ELSE SuccessfulIds(SubSeq(log, 1, Len(log) - 1))

\* C14: when the writes go to the local destination, after n >= 1 of them succeeded
\* all_articles.csv holds the header as its first row and then exactly the n rows of
\* the successful writes, in write order
C14_OneHeader ==
    (/\ \A i \in DOMAIN write_log : write_log[i].sink = "local"
     /\ Len(SuccessfulIds(write_log)) >= 1)
    => /\ local_csv[1] = Header
       /\ Len(local_csv) = Len(SuccessfulIds(write_log)) + 1
       /\ \A k \in 1..Len(SuccessfulIds(write_log)) :
             local_csv[k + 1] = [kind |-> "row", id |-> SuccessfulIds(write_log)[k]]

\* C14 witness: three records were written to the local destination, all with
\* success, and the file has four rows
C14_Witness ==
    /\ Len(write_log) = 3
    /\ \A i \in DOMAIN write_log : write_log[i].sink = "local" /\ write_log[i].ok
    /\ Len(local_csv) = 4

-----------------------------------------------------------------------------
(* Claims about the run *)

Ids(records) == [i \in DOMAIN records |-> records[i].id]

\* a step in which a record is classified, or a record or file is written
BatchStep ==
    \/ verdict_log' # verdict_log
    \/ write_log' # write_log
    \/ <<local_files, local_csv, s3_objects, s3_csv_content>>'
         # <<local_files, local_csv, s3_objects, s3_csv_content>>

\* C3: records are classified and persisted only in the step that handles the
\* crawl-closed signal; no fetch callback is outstanding after it or runs after it,
\* the classification covers the whole buffer in order, and only buffered records
\* are written
C3_AfterCrawlClosed ==
    [][ /\ BatchStep =>
            /\ spider_phase # "closed"
            /\ spider_phase' = "closed"
            /\ pending' = {}
            /\ scraped_articles' = scraped_articles
            /\ verdict_log' # <<>> => Ids(verdict_log') = Ids(scraped_articles)
            /\ Range(Ids(write_log')) \subseteq Range(Ids(scraped_articles))
        /\ spider_phase = "closed" =>
            UNCHANGED <<scraped_articles, articles_processed, verdict_log, write_log>>
      ]_vars

\* C3 witness: three pages were fetched and buffered, then the run closed, the three
\* records were classified and some were written
C3_Witness ==
    /\ spider_phase = "closed"
    /\ articles_processed = 3
    /\ Len(scraped_articles) = 3
    /\ Len(verdict_log) = 3
    /\ Len(write_log) >= 1

\* C4: every record handed to write_json_per_article has an accept verdict of
\* is_actual_article in this run; a rejected record, or one without a verdict, is
\* never handed over
C4_OnlyAccepted ==
    \A i \in DOMAIN write_log :
        \E j \in DOMAIN verdict_log :
            /\ verdict_log[j].id = write_log[i].id
            /\ verdict_log[j].outcome.raised = ""
            /\ verdict_log[j].outcome.accepted

\* the remote sink is required by save_filtered_articles and is not configured
Unconfigured == ~(env.S3_AVAILABLE /\ is_s3_configured(env))

\* C15: in a run whose remote sink is not configured no write of a record is
\* attempted, nothing reaches the bucket, no article file and no CSV row reaches the
\* output directory, articles_saved stays 0, and the persistence stage of a run that
\* scraped something ends with the exception
C15_AbortBeforeWrites ==
    Unconfigured =>
        /\ write_log = <<>>
        /\ articles_saved = 0
        /\ s3_objects = <<>>
        /\ s3_csv_content = <<>>
        /\ local_csv = <<>>
        /\ DOMAIN local_files \subseteq {"scrape_summary.json"}
        /\ (spider_phase = "closed" /\ scraped_articles # <<>>) => closed_raised # None

\* C15 witness: a run without the remote configuration closed with accepted records
\* in hand, and wrote none
C15_Witness ==
    /\ Unconfigured
    /\ spider_phase = "closed"
    /\ Len(filtered_articles) >= 2
    /\ closed_raised = "S3 configuration required but not found"
    /\ write_log = <<>>
    /\ articles_saved = 0

\* the destination class the records of the run were written to
ArticleSinks == {write_log[i].sink : i \in DOMAIN write_log} \cap {"s3", "local"}

\* C16: when the run has ended, the summary report has been written exactly once,
\* after the records were persisted, to the destination class of the records, and
\* it carries the counters total_articles_found, articles_processed and
\* articles_saved of the run
C16_ReportOnce ==
    spider_phase = "finished"
    => /\ Len(report_log) = 1
       /\ \A i \in DOMAIN report_log :
             /\ report_log[i].location # ""
             /\ \A sink \in ArticleSinks : report_log[i].location = sink
             /\ report_log[i].body.total_articles_found = articles_found
             /\ report_log[i].body.articles_processed = articles_processed
             /\ report_log[i].body.articles_saved = articles_saved

\* C17: a buffered record carries a summary only once the classification batch has
\* run and has kept the record; before the batch no buffered record carries one
C17_SummaryAfterClassification ==
    \A i \in DOMAIN scraped_articles :
        scraped_articles[i].summary # None
        => /\ spider_phase \in {"closed", "finished"}
           /\ \E j \in DOMAIN filtered_articles :
                 filtered_articles[j].id = scraped_articles[i].id

\* C19: in save_filtered_articles a failed write is not counted and does not end
\* the loop: articles_saved is the number of writes that returned success, and once
\* the stage has run without its configuration error every record of
\* filtered_articles was handed to write_json_per_article, in order
C19_FailedWriteSkipped ==
    /\ articles_saved = Cardinality({i \in DOMAIN write_log : write_log[i].ok})
    /\ (spider_phase = "closed" /\ closed_raised = None /\ scraped_articles # <<>>)
       => Ids(write_log) = Ids(filtered_articles)

\* C19 witness: the first of three writes failed, the two after it were attempted
\* and succeeded, and two records are counted as saved
C19_Witness ==
    /\ spider_phase = "closed"
    /\ Len(write_log) = 3
    /\ ~write_log[1].ok
    /\ write_log[2].ok
    /\ write_log[3].ok
    /\ articles_saved = 2

-----------------------------------------------------------------------------
(* Claims about the classifier *)

Classified == verdict # Pending

\* A record extract_article can return: at least 100 characters of content, and a
\* title that is None or a non-empty string (extractors.py:83-99, 129-138, 159-175)
ExtractorCanProduce(r) == Len(r.content) >= 100 /\ r.title # ""

\* The record matches an entry of the definitive list (title lower-cased as in line 30)
MatchesDefinitive(r) ==
    LET title == IF r.title = None THEN "" ELSE Lower(r.title)
    IN  \E i \in DOMAIN definitive_non_articles(title, r.content) :
            definitive_non_articles(title, r.content)[i]

\* C5: for every record the extractor can produce, including one whose title or author
\* is None or empty, is_actual_article returns a pair with a non-empty reason and raises
\* nothing.
C5_AlwaysAVerdict ==
    (Classified /\ ExtractorCanProduce(record))
        => (verdict.raised = "" /\ verdict.reason # "")

\* C6: a record whose content is shorter than 150 characters, or that matches a
\* definitive non-article pattern, is rejected with a "definitive"/"too short" reason,
\* whatever its other fields are.
C6_DefinitiveRejects ==
    (Classified /\ (Len(record.content) < 150 \/ MatchesDefinitive(record)))
        => /\ verdict.raised = ""
           /\ ~verdict.accepted
           /\ \/ Contains(Lower(verdict.reason), "definitive")
              \/ Contains(Lower(verdict.reason), "too short")

\* The record of C7: a two-word author, 2500 characters of content, a title "X: Y"
TwoWordAuthorLongBody(r) ==
    /\ r.author # None /\ WordCount(r.author) = 2
    /\ Len(r.content) = 2500
    /\ r.title # None /\ Contains(r.title, ": ") /\ SplitLen(r.title, ":") = 2

\* C7 as stated: every such record is accepted.
C7_Original ==
    (Classified /\ TwoWordAuthorLongBody(record))
        => (verdict.raised = "" /\ verdict.accepted)

\* C7 amended: every such record that matches no definitive non-article pattern is
\* accepted by the strong-signal rule (strong-signal count at least 3).
C7_AcceptsUnlessDefinitive ==
    (Classified /\ TwoWordAuthorLongBody(record) /\ ~MatchesDefinitive(record))
        => /\ verdict.raised = ""
           /\ verdict.accepted
           /\ StartsWith(verdict.reason, "Strong article (score: ")

\* C7 witness: the spec's example record, accepted although its body has no sentence
C7_Witness ==
    /\ Classified
    /\ record.title = "X: Y" /\ record.author = "Jane Doe"
    /\ Len(record.content) = 2500 /\ Count(record.content, ".") = 0
    /\ verdict.accepted

\* The author as line 36 normalizes it, and the three quantities of the decision:
\* the strong-signal count (a plausible author string counts as one signal), the
\* weak-signal count and the outcome of the content-structure gate
AuthorOf(r) == IF r.author = None \/ r.author = "" THEN "" ELSE Strip(r.author)
StrongCount(r) ==
    (IF AuthorOf(r) # "" /\ Lower(AuthorOf(r)) \notin {"null", "none"} THEN 1 ELSE 0)
    + CountTrue(strong_article_indicators(Lower(r.title), r.content, AuthorOf(r)))
WeakCount(r) == CountTrue(weak_article_indicators(Lower(r.title), r.content, Lower(r.url)))
GatePassed(r) == analyze_content_structure(r.content).ok

\* the record reaches the definitive list and matches none of its entries
PassesDefinitive(r) == r.title # None /\ ~MatchesDefinitive(r)

\* the four accepting rules of the decision, in order
AcceptRule(r) ==
    \/ StrongCount(r) >= 3
    \/ StrongCount(r) >= 2 /\ GatePassed(r)
    \/ StrongCount(r) >= 1 /\ WeakCount(r) >= 3 /\ GatePassed(r)
    \/ AuthorOf(r) # "" /\ Len(r.content) > 1000 /\ GatePassed(r)

\* C21: for every record that passes the definitive-rejection step the classifier
\* returns a verdict, and the verdict is accept exactly when one of the four rules
\* holds: strong >= 3; strong >= 2 and gate; strong >= 1, weak >= 3 and gate; author
\* present, content over 1000 characters and gate.  Otherwise it is reject.
C21_DecisionRules ==
    (Classified /\ PassesDefinitive(record))
    => /\ verdict.raised = ""
       /\ verdict.accepted <=> AcceptRule(record)

-----------------------------------------------------------------------------
(* Claims about the link filter *)

\* the network location of a URL, compared as host names are: without regard to case
Host(url) == Lower(urlparse(url, "").netloc)

\* what the claims need to know about each raw link and each returned URL,
\* evaluated once
LinkFacts ==
    [h \in Homepages |-> [l \in RawLinks |->
        [resolved_host |-> Host(urljoin(h, l)),
         clean |-> _clean_url(urljoin(h, l)),
         clean_excluded |-> MatchesExclude(Lower(_clean_url(urljoin(h, l)))),
         raw_excluded |-> MatchesExclude(Lower(l)),
         raw_included |-> MatchesArticle(Lower(l))]]]
Returned1 == UNION {{CandidateTable[h][l] : l \in RawLinks} : h \in Homepages} \ {None}
UrlFacts ==
    [u \in Returned1 \cup Homepages |->
        [host |-> Host(u), excluded |-> MatchesExclude(Lower(u))]]
HostOf(u) == IF u \in DOMAIN UrlFacts THEN UrlFacts[u].host ELSE Host(u)
Excluded(u) ==
    IF u \in DOMAIN UrlFacts THEN UrlFacts[u].excluded ELSE MatchesExclude(Lower(u))

\* C8: every URL suggest_article_links returns has the homepage's host, and a raw
\* link whose resolved host differs (another site, another subdomain) is not returned
\* in any form: neither as written, nor resolved and cleaned
C8_SameHost ==
    link_phase # "collect" =>
        /\ \A u \in Range(article_links) : HostOf(u) = HostOf(homepage)
        /\ \A i \in DOMAIN hrefs :
              LinkFacts[homepage][hrefs[i]].resolved_host # HostOf(homepage) =>
                  /\ hrefs[i] \notin Range(article_links)
                  /\ LinkFacts[homepage][hrefs[i]].clean \notin Range(article_links)

\* C8 witness: links to another site and to a subdomain were given next to a
\* same-site link, and only the same-site link was returned
C8_Witness ==
    /\ link_phase = "suggested"
    /\ "https://other.org/news/story-one" \in Range(hrefs)
    /\ "https://sub.example.com/news/story-one" \in Range(hrefs)
    /\ "https://EXAMPLE.com/blog/post-two?fbclid=x1&page=2#comments" \in Range(hrefs)
    /\ article_links = <<"https://EXAMPLE.com/blog/post-two?page=2">>

C10_Idempotent ==
    link_phase = "fed_back" => Range(fed_back) = Range(article_links)

\* C10 witness: links that are resolved, lose a fragment and a tracking parameter
\* and collapse to one URL were filtered, and the result was fed back
C10_Witness ==
    /\ link_phase = "fed_back"
    /\ hrefs = <<"/news/story-one#top", "/news/story-one",
                 "https://EXAMPLE.com/blog/post-two?fbclid=x1&page=2#comments">>
    /\ Len(article_links) = 2
    /\ Len(fed_back) = 2

\* a raw link without its fragment and without the query parameters whose key is a
\* tracking key: the text before '?' and the other parameters, in order
Essence(link) ==
    LET Params(query) == IF query = "" THEN <<>> ELSE Split(query, "&")
        Others(params) ==
            Select(params, {k \in DOMAIN params :
                               Lower(SplitFirst(params[k], "=")) \notin tracking_params})
        Parts(no_fragment) ==
            <<SplitFirst(no_fragment, "?"), Others(Params(After(no_fragment, "?")))>>
    IN  Parts(SplitFirst(link, "#"))

\* a URL that carries a fragment or a tracking parameter
Tracked(url) ==
    LET Params(query) == IF query = "" THEN <<>> ELSE Split(query, "&")
        HasTracking(params) ==
            \E k \in DOMAIN params : Lower(SplitFirst(params[k], "=")) \in tracking_params
    IN  Contains(url, "#") \/ HasTracking(Params(urlparse(url, "").query))

\* Essence of the raw links and Tracked of the returned URLs, evaluated once
EssenceTable == [l \in RawLinks |-> Essence(l)]
TrackedTable == [u \in Returned1 |-> Tracked(u)]
EssenceOf(link) == IF link \in RawLinks THEN EssenceTable[link] ELSE Essence(link)
IsTracked(url) == IF url \in Returned1 THEN TrackedTable[url] ELSE Tracked(url)

\* C11: the returned list has no duplicates; no returned URL carries a fragment or a
\* tracking parameter; and raw links that differ only in their fragment or their
\* tracking parameters contribute one and the same URL (or are all skipped)
C11_Collapsed ==
    link_phase # "collect" =>
        /\ \A i, j \in DOMAIN article_links : i # j => article_links[i] # article_links[j]
        /\ \A u \in Range(article_links) : ~IsTracked(u)
        /\ \A i, j \in DOMAIN hrefs :
              EssenceOf(hrefs[i]) = EssenceOf(hrefs[j]) =>
                  /\ CandidateOf(homepage, hrefs[i]) = CandidateOf(homepage, hrefs[j])
                  /\ \/ CandidateOf(homepage, hrefs[i]) = None
                     \/ CandidateOf(homepage, hrefs[i]) \in Range(article_links)

\* C11 witness: the same article was linked plainly, with a fragment and with a
\* tracking parameter, and one URL was returned for the three links
C11_Witness ==
    /\ link_phase = "suggested"
    /\ hrefs = <<"/news/story-one#top", "/news/story-one?utm_source=a", "/news/story-one">>
    /\ EssenceOf(hrefs[1]) = EssenceOf(hrefs[2])
    /\ EssenceOf(hrefs[2]) = EssenceOf(hrefs[3])
    /\ homepage = "https://example.com"
    /\ article_links = <<"https://example.com/news/story-one">>

-----------------------------------------------------------------------------
(* Claims about the summarizer *)

\* the abstractive model was asked and gave no summary: it could not be loaded, it
\* raised, or its output was empty after stripping
ModelFailed ==
    /\ summarize_args.enabled
    /\ \/ summarize_args.model.kind \in {"unavailable", "raises"}
       \/ Strip(summarize_args.model.text) = ""

\* the extractive summary of the content, or of the part of it the model was given
ExtractiveSummaries ==
    { _fallback_summary(summarize_args.text, SummaryMaxLength),
      _fallback_summary(Prefix(summarize_args.text, MaxInputChars), SummaryMaxLength) }

\* C12: for a content that is absent or shorter than 100 characters summarize returns
\* the content unchanged or "N/A", never the empty string, and does not ask for the
\* model
C12_ShortUnchanged ==
    (/\ summarize_outcome # NotCalled
     /\ (summarize_args.text = None \/ Len(summarize_args.text) < 100))
    => /\ \/ (summarize_args.text # None /\ summarize_outcome.returned = summarize_args.text)
          \/ summarize_outcome.returned = "N/A"
       /\ summarize_outcome.returned # ""
       /\ summarize_outcome.model_use = "none"

\* C12 witness: a content of 99 characters was summarized while the model was enabled
\* and able to give a summary, and the content came back
C12_Witness ==
    /\ summarize_outcome # NotCalled
    /\ summarize_args.text # None
    /\ Len(summarize_args.text) = 99
    /\ summarize_args.enabled
    /\ summarize_args.model = [kind |-> "ok", text |-> " The council voted on the measure. "]
    /\ summarize_outcome.returned = summarize_args.text

\* C13 as stated, for every content of at least 100 characters: when the model fails,
\* summarize returns the extractive summary, which is not empty
C13_Original ==
    (/\ summarize_outcome # NotCalled
     /\ summarize_args.text # None
     /\ Len(summarize_args.text) >= 100
     /\ ModelFailed)
    => /\ summarize_outcome.returned \in ExtractiveSummaries
       /\ summarize_outcome.returned # ""

\* C13 amended: the threshold is on the content without its leading and trailing
\* whitespace.  For a content of at least 100 characters after stripping, when the
\* model fails, summarize returns the extractive summary, which is not empty
C13_FallbackOnFailure ==
    (/\ summarize_outcome # NotCalled
     /\ summarize_args.text # None
     /\ Len(Strip(summarize_args.text)) >= 100
     /\ ModelFailed)
    => /\ summarize_outcome.returned \in ExtractiveSummaries
       /\ summarize_outcome.returned # ""
       /\ summarize_outcome.model_use \in {"get_summarizer", "summarizer"}

\* C13 witness: the model was run on a long content and gave a blank summary, and the
\* first sentences of the content came back
C13_Witness ==
    /\ summarize_outcome # NotCalled
    /\ summarize_args.text = Repeat(Sentence, 26)
    /\ summarize_args.enabled
    /\ summarize_args.model = [kind |-> "ok", text |-> "  "]
    /\ summarize_outcome.model_use = "summarizer"
    /\ summarize_outcome.returned =
          "The council voted on the measure today. The council voted on the measure today."
          \o " The council voted on the measure today. The council voted on the measure today."

\* C24: for every non-empty text and every max_chars the string _fallback_summary
\* returns has at most max_chars characters
C24_WithinBudget ==
    (/\ fallback_outcome # NotCalled
     /\ fallback_args.text # None
     /\ fallback_args.text # "")
    => Len(fallback_outcome.returned) <= fallback_args.max_chars

\* the text has a usable sentence: a period-delimited piece of more than 10
\* characters after stripping
HasUsableSentence(text) ==
    \E k \in DOMAIN Split(text, ".") : Len(Strip(Split(text, ".")[k])) > 10

\* C25: for every non-empty text the fallback summary ends with terminal
\* punctuation: a period when the text has a usable sentence, and otherwise it is
\* the text cut to max_chars followed by an ellipsis
C25_TerminalPunctuation ==
    (/\ fallback_outcome # NotCalled
     /\ fallback_args.text # None
     /\ fallback_args.text # "")
    => IF HasUsableSentence(fallback_args.text)
       THEN EndsWith(fallback_outcome.returned, ".")
       ELSE fallback_outcome.returned
              = Prefix(fallback_args.text, fallback_args.max_chars) \o "..."

-----------------------------------------------------------------------------
(* Claims about the extractor *)

\* a stage failed: it raised, returned None, or returned a record without content
PrimaryFailed == ~HasContent(_extract_with_trafilatura(extract_args.trafilatura))
HeuristicFailed == ~HasContent(_extract_with_beautifulsoup(extract_args.soup))

\* the content-type header of the response names HTML
IsHtml ==
    /\ extract_args.content_type # None
    /\ Contains(Lower(extract_args.content_type), "html")

\* C18: extract_article never raises; a non-HTML response is rejected with null and
\* no stage runs; the stages run in the order trafilatura, DOM heuristics; the
\* heuristics run only if trafilatura failed; and when the stages ran the result
\* is null exactly when both failed
C18_StagesInOrder ==
    extract_outcome # NotCalled
    => /\ extract_outcome.raised = ""
       /\ ~IsHtml => /\ extract_outcome.stages = <<>>
                     /\ extract_outcome.returned = NoArticle
       /\ extract_outcome.stages
             \in {<<>>, <<"trafilatura">>, <<"trafilatura", "beautifulsoup">>}
       /\ Len(extract_outcome.stages) = 2 => PrimaryFailed
       /\ extract_outcome.stages # <<>>
             => (extract_outcome.returned = NoArticle
                    <=> (PrimaryFailed /\ HeuristicFailed))

\* C23: every record extract_article returns, from either stage, has a stored
\* (cleaned) content of at least 100 characters
C23_ContentAtLeast100 ==
    (extract_outcome # NotCalled /\ extract_outcome.returned # NoArticle)
    => Len(extract_outcome.returned.content) >= 100

-----------------------------------------------------------------------------
(* Claims about the file names *)

\* the title has no letter, digit or underscore
AllSymbols(title) == \A i \in 1..Len(title) : ~IsWordChar(Char(title, i))

\* C20: for every title and every max_length >= 1 sanitize_filename returns a
\* non-empty name of at most max_length characters, in lower case, made of word
\* characters and single hyphens only, with no hyphen at either end; a None, empty
\* or all-symbol title gives "untitled"
C20_SafeName ==
    sanitize_outcome # NotCalled
    => /\ sanitize_args.max_length >= 1
       /\ sanitize_outcome.returned # ""
       /\ Len(sanitize_outcome.returned) <= sanitize_args.max_length
       /\ sanitize_outcome.returned = Lower(sanitize_outcome.returned)
       /\ \A i \in 1..Len(sanitize_outcome.returned) :
             \/ IsWordChar(Char(sanitize_outcome.returned, i))
             \/ Char(sanitize_outcome.returned, i) = "-"
       /\ ~Contains(sanitize_outcome.returned, "--")
       /\ ~StartsWith(sanitize_outcome.returned, "-")
       /\ ~EndsWith(sanitize_outcome.returned, "-")
       /\ (sanitize_args.title = None \/ AllSymbols(sanitize_args.title))
             => sanitize_outcome.returned = "untitled"

-----------------------------------------------------------------------------
(* Claims about several runs in one process *)

\* C26: the all_articles.csv object a run puts holds exactly one header row followed
\* by one row per record saved in that run, and no row of another run; this also
\* holds for a run that follows a run of the same process whose final put failed
C26_OneHeaderPerRun ==
    \A i \in DOMAIN flush_log :
        flush_log[i].flushed =>
            flush_log[i].rows =
                <<Header>> \o [k \in 1..Len(flush_log[i].saved) |->
                                 [kind |-> "row", id |-> flush_log[i].saved[k]]]

\* C26: a second run puts its object after the first run's put succeeded
C26_Witness ==
    /\ Len(flush_log) = 2
    /\ flush_log[1].flushed
    /\ flush_log[2].flushed

-----------------------------------------------------------------------------
(* Claims about concurrent workers *)

\* the positions of the accumulator that hold the row x
PositionsOf(x) == {i \in DOMAIN s3_csv_content : s3_csv_content[i] = x}

\* C27: however the workers running _upload_csv_to_s3 interleave, once all of them
\* have returned the accumulator holds exactly one header row, in first place, and
\* exactly one data row per worker's record
C27_AccumulatorSafe ==
    (\A w \in Workers : worker_pc[w] = "done") =>
        /\ PositionsOf(Header) = {1}
        /\ \A w \in Workers : Cardinality(PositionsOf(Row([id |-> w]))) = 1

-----------------------------------------------------------------------------
(* Claims about the counters of a run *)

\* a buffered record has content, its url and a summary
Complete(article) ==
    /\ article.content # None /\ article.content # ""
    /\ article.url # None /\ article.url # ""
    /\ article.summary # None /\ article.summary # ""

\* C28: at every point of a run articles_saved <= |filtered_articles| <=
\* |scraped_articles| <= articles_processed <= articles_found, with a positive
\* max_articles also articles_processed <= max_articles, and every buffered record
\* has non-empty content, its url and a non-empty summary
C28_CountersOrdered ==
    /\ articles_saved <= Len(filtered_articles)
    /\ Len(filtered_articles) <= Len(scraped_articles)
    /\ Len(scraped_articles) <= articles_processed
    /\ articles_processed <= articles_found
    /\ env.MAX_ARTICLES > 0 => articles_processed <= env.MAX_ARTICLES
    /\ \A i \in DOMAIN scraped_articles : Complete(scraped_articles[i])
    /\ \A i \in DOMAIN filtered_articles : Complete(filtered_articles[i])

\* C28: a closed run in which max_articles cut the three candidates to two, both
\* pages were processed and buffered, and a record was saved
C28_Witness ==
    /\ spider_phase = "closed"
    /\ env.MAX_ARTICLES = 2
    /\ articles_found = 3
    /\ articles_processed = 2
    /\ Len(scraped_articles) = 2
    /\ articles_saved >= 1

-----------------------------------------------------------------------------
(* Claims about the report of run_scraper *)

\* the number of records the run persisted: the writes that returned True
PersistedCount == Cardinality({i \in DOMAIN write_log : write_log[i].ok})

\* C29: when run_scraper has returned, the saved_count it computed and put into its
\* report, and the articles_saved of the report left in either destination, equal the
\* number of records the run persisted
C29_SavedCountIsPersisted ==
    spider_phase = "finished"
    => /\ \A i \in DOMAIN report_log :
             report_log[i].by = "run_scraper"
             => report_log[i].body.articles_saved = PersistedCount
       /\ "scrape_summary.json" \in DOMAIN s3_objects
             => s3_objects["scrape_summary.json"].articles_saved = PersistedCount
       /\ "scrape_summary.json" \in DOMAIN local_files
             => local_files["scrape_summary.json"].articles_saved = PersistedCount

-----------------------------------------------------------------------------
(* Claims about a failed local write *)

\* C30: a call of write_json_per_article that ran against the local sink and
\* returned False leaves the output directory as it was: no new JSON file and no
\* new row in all_articles.csv
C30_FailedLocalWriteLeavesNothing ==
    [][(/\ Len(write_log') = Len(write_log) + 1
        /\ write_log'[Len(write_log')].sink = "local"
        /\ ~write_log'[Len(write_log')].ok)
       => (local_files' = local_files /\ local_csv' = local_csv)]_vars

====
